---- MODULE Spec2Model ----
(***************************************************************************)
(* Routing layer of tonlibjson: route evaluation over tracked nodes        *)
(* (ton-client-util/src/router.rs, tonlibjson-client/src/balance.rs) and   *)
(* the Router service that tracks nodes from a membership stream           *)
(* (tonlibjson-client/src/router.rs, tonlibjson-client/src/balance.rs).    *)
(* LiteServerClient of ton-liteserver-client/src/client.rs: callers, the    *)
(* pending table, the spawned actor and its keepalive.                     *)
(***************************************************************************)
EXTENDS Integers, Sequences, FiniteSets, Bags, TLC

(* ------------------------------ bounds --------------------------------- *)
\* highest masterchain seqno a node's tracker has published
MaxSeqno == 2
\* largest collection of nodes a route is evaluated over
MaxNodes == 4
\* most membership events waiting in the discover stream
MaxQueue == 2
\* calls issued on one node's LiteServerClient
MaxCalls == 2
\* liveness probes written and not yet acknowledged
MaxProbes == 1
\* highest masterchain seqno the node behind a tracker reaches
MaxHead == 4
\* items a BlockChannel publishes before the model stops it
MaxLog == 2
\* changes sent to a BlockChannel's task and not yet applied
MaxChanges == 1
\* nodes the Router of a Balance holds when a request is dispatched
MaxServices == 2
MaxClones == 3
MaxSnapshots == 2

(* --------------------------- Option<T> --------------------------------- *)
None == <<>>
Some(x) == <<x>>
IsSome(o) == o # <<>>
Unwrap(o) == o[1]

(* ------------------------- block data model ---------------------------- *)
MasterChain == 0 - 1
BaseChain == MasterChain + 1
Chains == {MasterChain, BaseChain}

\* The blocks every node replicates.  The masterchain block with seqno s
\* covers logical times 2s..2s+1; the workchain block it references has
\* seqno s+1 and covers logical times 2s+1..2s+2.
Header(chain, s) ==
    IF chain = MasterChain
    THEN [id |-> [workchain |-> chain, seqno |-> s],
          start_lt |-> 2 * s, end_lt |-> 2 * s + 1]
    ELSE [id |-> [workchain |-> chain, seqno |-> s + 1],
          start_lt |-> 2 * s + 1, end_lt |-> 2 * s + 2]

\* BlockChannelItem = (master header, worker header)
BlockChannelItem(s) == <<Header(MasterChain, s), Header(BaseChain, s)>>
Items == {BlockChannelItem(s) : s \in 1..MaxSeqno}
OptItems == {None} \cup {Some(i) : i \in Items}

\* What a CursorClient exposes of its tracker: the values of its two watch
\* channels (None until the tracker publishes).
CursorClients == [first_block_rx : OptItems, last_block_rx : OptItems]

\* Positions a request can name.
Seqnos == 1..(MaxSeqno + 2)
Lts == 1..(2 * MaxSeqno + 3)

(* ------------------------------ bags ----------------------------------- *)
\* the sub-collection of B whose items satisfy P (iterator filter + collect)
Filter(B, P(_)) == [e \in {x \in DOMAIN B : P(x)} |-> B[e]]
Len2(B) == BagCardinality(B)

Max(S) == CHOOSE x \in S : \A y \in S : y <= x

\* distinct keys of S in descending order (sorted_unstable_by_key(-seqno)
\* followed by grouping adjacent equal keys)
RECURSIVE SortedDesc(_)
SortedDesc(S) == IF S = {} THEN <<>> ELSE <<Max(S)>> \o SortedDesc(S \ {Max(S)})

(* ------------- tonlibjson-client/src/balance.rs: Route ----------------- *)
BalanceCriteria ==
    {[type |-> "Seqno", seqno |-> q] : q \in Seqnos} \cup
    {[type |-> "LogicalTime", lt |-> v] : v \in Lts}
BalanceRoutes ==
    {[type |-> "Any"]} \cup
    {[type |-> "Block", chain |-> c, criteria |-> cr] : c \in Chains, cr \in BalanceCriteria} \cup
    {[type |-> "Latest", chain |-> c] : c \in Chains}

\* CursorClient::headers(chain): the (first, last) headers of the chain,
\* defined once both watch channels hold a value
headers(s, chain) ==
    IF s.first_block_rx = None \/ s.last_block_rx = None THEN None
    ELSE IF chain = MasterChain
         THEN Some(<<Unwrap(s.first_block_rx)[1], Unwrap(s.last_block_rx)[1]>>)
         ELSE Some(<<Unwrap(s.first_block_rx)[2], Unwrap(s.last_block_rx)[2]>>)

\* mutant: the seqno window is open at its upper end
balance_contains_open_end(criteria, first_block, last_block) ==
    IF criteria.type = "LogicalTime"
    THEN first_block.start_lt <= criteria.lt /\ criteria.lt <= last_block.end_lt
    ELSE first_block.id.seqno <= criteria.seqno /\ criteria.seqno < last_block.id.seqno

\* mutant: the logical time is compared with the start of the last block
balance_contains_last_start(criteria, first_block, last_block) ==
    IF criteria.type = "LogicalTime"
    THEN first_block.start_lt <= criteria.lt /\ criteria.lt <= last_block.start_lt
    ELSE first_block.id.seqno <= criteria.seqno /\ criteria.seqno <= last_block.id.seqno

\* the filter of Route::Block
balance_contains(criteria, first_block, last_block) ==
    IF criteria.type = "LogicalTime"
    THEN first_block.start_lt <= criteria.lt /\ criteria.lt <= last_block.end_lt
    ELSE first_block.id.seqno <= criteria.seqno /\ criteria.seqno <= last_block.id.seqno

balance_last_seqno(client, chain) ==
    IF IsSome(headers(client, chain))
    THEN Some(Unwrap(headers(client, chain))[2].id.seqno)
    ELSE None

\* the nodes with known headers for the chain, sorted by descending last
\* seqno and grouped by equal seqno
balance_groups(services, chain) ==
    LET Known(s) == IsSome(balance_last_seqno(s, chain))
        known == Filter(services, Known)
        keys == SortedDesc({Unwrap(balance_last_seqno(s, chain)) : s \in DOMAIN known})
        Group(q) == LET Same(s) == Unwrap(balance_last_seqno(s, chain)) = q
                    IN Filter(known, Same)
    IN [i \in 1..Len(keys) |-> Group(keys[i])]

\* for (_, group) in &groups { idxs = group.collect(); if idxs.len() > 2 { break; } }
RECURSIVE balance_walk(_, _)
balance_walk(groups, idxs) ==
    IF groups = <<>> THEN idxs
    ELSE IF Len2(Head(groups)) > 2 THEN Head(groups)
         ELSE balance_walk(Tail(groups), Head(groups))

balance_choose(route, services) ==
    CASE route.type = "Any" -> services
      [] route.type = "Block" ->
            LET HasHeaders(s) == IsSome(headers(s, route.chain))
                InWindow(s) == balance_contains(route.criteria,
                                                Unwrap(headers(s, route.chain))[1],
                                                Unwrap(headers(s, route.chain))[2])
            IN Filter(Filter(services, HasHeaders), InWindow)
      [] route.type = "Latest" ->
            balance_walk(balance_groups(services, route.chain), EmptyBag)

\* Router::call of balance.rs
balance_call(req, services) ==
    LET chosen == balance_choose(req, services)
    IN IF chosen = EmptyBag
       THEN [ok |-> FALSE, err |-> "no services available"]
       ELSE [ok |-> TRUE, services |-> chosen]


(* ------------- ton-client-util/src/router.rs: Route -------------------- *)
BlockCriteria ==
    {[type |-> "Seqno", seqno |-> q] : q \in Seqnos} \cup
    {[type |-> "LogicalTime", lt |-> v] : v \in Lts}
Routes ==
    {[type |-> "Block", chain |-> c, criteria |-> cr] : c \in Chains, cr \in BlockCriteria} \cup
    {[type |-> "Latest"]}

\* the (first, last) headers a node tracks for a chain
edges(s, chain) ==
    IF chain = MasterChain
    THEN <<Unwrap(s.first_block_rx)[1], Unwrap(s.last_block_rx)[1]>>
    ELSE <<Unwrap(s.first_block_rx)[2], Unwrap(s.last_block_rx)[2]>>

\* Routed for CursorClient: a node has a defined window once both the first
\* and the last header are published
edges_defined(s) == IsSome(s.first_block_rx) /\ IsSome(s.last_block_rx)

\* Routed::contains: the node's window for the chain covers the position
contains(s, chain, criteria) ==
    /\ edges_defined(s)
    /\ IF criteria.type = "Seqno"
       THEN /\ edges(s, chain)[1].id.seqno <= criteria.seqno
            /\ criteria.seqno <= edges(s, chain)[2].id.seqno
       ELSE /\ edges(s, chain)[1].start_lt <= criteria.lt
            /\ criteria.lt <= edges(s, chain)[2].end_lt

\* Routed::contains_not_available: the position is not ahead of the node's
\* head, so the node could serve it at some time
contains_not_available(s, chain, criteria) ==
    /\ edges_defined(s)
    /\ IF criteria.type = "Seqno"
       THEN criteria.seqno <= edges(s, chain)[2].id.seqno
       ELSE criteria.lt <= edges(s, chain)[2].end_lt

\* Routed::last_seqno: the seqno of the node's masterchain head, once known
last_seqno(s) ==
    IF IsSome(s.last_block_rx) THEN Some(Unwrap(s.last_block_rx)[1].id.seqno) ELSE None

Ok(clients) == [ok |-> TRUE, services |-> clients]
Err(e) == [ok |-> FALSE, err |-> e]

\* mutant: the not-available answers of the nodes are dropped
block_result_unknown_only(clients, known) ==
    IF clients = EmptyBag THEN Err("RouteUnknown") ELSE Ok(clients)

\* if clients.is_empty() { if known { NotAvailable } else { Unknown } } else { Ok }
block_result(clients, known) ==
    IF clients = EmptyBag
    THEN IF known THEN Err("RouteNotAvailable") ELSE Err("RouteUnknown")
    ELSE Ok(clients)

\* mutant: the groups are ranked by ascending seqno
latest_groups_ascending(from_) ==
    LET Known(s) == IsSome(last_seqno(s))
        known == Filter(from_, Known)
        keys == SortedDesc({Unwrap(last_seqno(s)) : s \in DOMAIN known})
        Group(q) == LET Same(s) == Unwrap(last_seqno(s)) = q
                    IN Filter(known, Same)
    IN [i \in 1..Len(keys) |-> Group(keys[Len(keys) + 1 - i])]

\* the nodes with a known head, sorted by descending seqno and chunked by
\* equal seqno
latest_groups(from_) ==
    LET Known(s) == IsSome(last_seqno(s))
        known == Filter(from_, Known)
        keys == SortedDesc({Unwrap(last_seqno(s)) : s \in DOMAIN known})
        Group(q) == LET Same(s) == Unwrap(last_seqno(s)) = q
                    IN Filter(known, Same)
    IN [i \in 1..Len(keys) |-> Group(keys[i])]

\* mutant: without a group the empty candidate list is returned
latest_result_empty_ok(groups) ==
    IF groups # <<>> THEN Ok(Head(groups)) ELSE Ok(EmptyBag)

\* if let Some((_, group)) = groups.into_iter().next() { Ok(group) } else { Unknown }
latest_result(groups) ==
    IF groups # <<>> THEN Ok(Head(groups)) ELSE Err("RouteUnknown")

choose(route, from_) ==
    IF route.type = "Block"
    THEN LET Contains(s) == contains(s, route.chain, route.criteria)
             clients == Filter(from_, Contains)
             known == \E s \in DOMAIN from_ :
                         /\ ~contains(s, route.chain, route.criteria)
                         /\ contains_not_available(s, route.chain, route.criteria)
         IN block_result(clients, known)
    ELSE latest_result(latest_groups(from_))

\* mutant: RouteUnknown is surfaced without evaluating Latest
call_no_fallback(req, services) ==
    LET direct == choose(req, services)
    IN IF direct.ok THEN Ok(direct.services) ELSE Err(direct.err)

\* Router::call of tonlibjson-client/src/router.rs
call(req, services) ==
    LET direct == choose(req, services)
    IN IF direct.ok THEN Ok(direct.services)
       ELSE IF direct.err = "RouteUnknown"
            THEN choose([type |-> "Latest"], services)
            ELSE Err("RouteNotAvailable")

(* -------- Router: tracked nodes, membership stream, readiness ---------- *)
Keys == {"a", "b"}
NodeIds == {"n1", "n2"}

Insert(key, svc) == [change |-> "Insert", key |-> key, svc |-> svc]
Remove(key) == [change |-> "Remove", key |-> key]
Changes == {Insert(k, n) : k \in Keys, n \in NodeIds} \cup {Remove(k) : k \in Keys}

\* HashMap::insert / HashMap::remove on a map kept as its set of entries
HashMapInsert(map, key, svc) ==
    {e \in map : e.key # key} \cup {[key |-> key, svc |-> svc]}
HashMapRemove(map, key) == {e \in map : e.key # key}

(* ------------------- LiteServerClient: data ---------------------------- *)
\* the values random() draws correlation ids from (Int256)
Int256 == {"i1", "i2"}
Calls == 1..MaxCalls
\* an answer payload: its constructor number is the declared response
\* type's (T), LiteServerError's (E) or another one; its fields parse or not;
\* its body is the request it answers
Constructors == {"T", "E", "other"}
Payloads ==
    {p \in [constructor : Constructors, wellformed : BOOLEAN, body : Calls] :
        p.constructor = "other" => ~p.wellformed}

\* a call before Service::poll_ready: no id drawn, no oneshot channel
NewCall ==
    [pc |-> "new", query_id |-> "none", chan |-> "none", value |-> None,
     output |-> None, inserted |-> FALSE]

\* DashMap::insert / DashMap::remove on responses, a map query_id -> call
\* whose oneshot::Sender it holds
DashMapInsert(map, id, c) ==
    [i \in DOMAIN map \cup {id} |-> IF i = id THEN c ELSE map[i]]
DashMapRemove(map, id) == [i \in DOMAIN map \ {id} |-> map[i]]

\* Error of client.rs, as the output of a response future
ErrorOutput(kind) == [kind |-> kind, body |-> 0]

\* T::deserialize_boxed / E::deserialize_boxed of a payload
deserialize_boxed(ctor, payload) ==
    IF payload.constructor # ctor THEN "UnexpectedConstructorNumber"
    ELSE IF payload.wellformed THEN "Ok"
    ELSE "DeserializeError"

\* Result<T, E>::deserialize_boxed decoding the declared type only
Result_deserialize_boxed_no_error_type(payload) ==
    IF deserialize_boxed("T", payload) = "Ok"
    THEN [kind |-> "Ok", body |-> payload.body]
    ELSE ErrorOutput("Deserialize")

\* Result<T, E>::deserialize_boxed followed by the two map_err of
\* ResponseFuture::poll
Result_deserialize_boxed(payload) ==
    LET t == deserialize_boxed("T", payload)
    IN  IF t = "Ok" THEN [kind |-> "Ok", body |-> payload.body]
        ELSE IF t = "UnexpectedConstructorNumber"
        THEN IF deserialize_boxed("E", payload) = "Ok"
             THEN [kind |-> "LiteServerError", body |-> payload.body]
             ELSE ErrorOutput("Deserialize")
        ELSE ErrorOutput("Deserialize")

VARIABLES
    from,        \* the nodes a route is evaluated over
    evaluated,   \* the route evaluated over them and what it returned
    discover,    \* Router.discover: membership changes not yet polled
    services,    \* Router.services: the tracked nodes
    rx,          \* per node, the values of its tracker's watch channels
    sent,        \* per key, the last change the membership stream produced
    polled,      \* what the latest poll_ready returned, until the next step
    woken,       \* the task's waker was invoked by the latest poll_ready
    calls,       \* per call on a LiteServerClient: position, id, oneshot channel
    responses,   \* LiteServerClient.responses: query_id -> pending call
    tx,          \* LiteServerClient.tx: queries not yet taken by the actor
    inner,       \* queries written to the transport and not yet answered
    holding,     \* the sender the actor removed and has not yet sent on
    actor,       \* the spawned task: running, cancelled, failed or panicked
    handle,      \* some LiteServerClient handle is alive
    idle,        \* the interval has ticked since the last query was taken
    probes,      \* pings written whose pong has not been read
    head,        \* the masterchain seqno the tracked node has reached
    alive,       \* the CursorClient holding the watch receivers exists
    fast,        \* the fast loop: position and the head info it fetched
    current,     \* the fast loop's remembered MasterchainInfo
    mtx,         \* value of the masterchain_info watch channel
    ctx,         \* value of the last_block watch channel
    last_log,    \* every last header the fast loop has published, in order
    slow,        \* the slow loop: position and the state of its search
    first_block, \* the slow loop's remembered first block
    ftx,         \* value of the first_block watch channel
    channel,     \* a BlockChannel: its handle and its task's locals
    joined,      \* every item sent on the broadcast channel, in order
    subscriber,  \* a receiver of the broadcast channel and what it was sent
    balance,     \* one Balance::call: its position, candidates and outcome
    async_client, \* an AsyncClient: its calls, pending table and connection
    cursor,      \* a CursorClient as a service: its last poll and call
    shared,      \* a SharedService: its mutex, its inner service, its users
    workchains   \* a WorkchainsLastBlocksTracker: actor, map and channel

routeVars == <<from, evaluated>>
routerVars == <<discover, services, rx, sent, polled, woken>>
clientVars == <<calls, responses, tx, inner, holding, actor, handle, idle, probes>>
trackerVars == <<head, alive, fast, current, mtx, ctx, last_log, slow,
                 first_block, ftx>>
channelVars == <<channel, joined, subscriber>>
serviceVars == <<cursor, shared, workchains>>
nodeVars == <<trackerVars, channelVars, balance, async_client, serviceVars>>
vars == <<from, evaluated, discover, services, rx, sent, polled, woken,
          calls, responses, tx, inner, holding, actor, handle, idle, probes,
          nodeVars>>

RouteInit == from = EmptyBag /\ evaluated = None

\* Router::new, CursorClient::new: nothing tracked, nothing published
RouterInit ==
    /\ discover = <<>>
    /\ services = {}
    /\ rx = [n \in NodeIds |-> [first_block_rx |-> None, last_block_rx |-> None]]
    /\ sent = [k \in Keys |-> None]
    /\ polled = None
    /\ woken = FALSE

\* LiteServerClient::connect: empty table, empty queue, the actor spawned
ClientInit ==
    /\ calls = [c \in Calls |-> NewCall]
    /\ responses = [i \in {} |-> 0]
    /\ tx = <<>>
    /\ inner = {}
    /\ holding = None
    /\ actor = "running"
    /\ handle = TRUE
    /\ idle = FALSE
    /\ probes = 0

\* the slow loop between searches
NoSearch ==
    [pc |-> "tick", length |-> 0, lhs |-> 0, rhs |-> 0, cur |-> 0,
     block |-> FALSE, probes |-> 0, result |-> "none", header |-> 0,
     lookup |-> "none"]

\* CursorClient::new: the three watch channels hold None, both loops wait
\* for their first tick with nothing remembered
TrackerInit ==
    /\ head = 1
    /\ alive = TRUE
    /\ fast = [pc |-> "tick", info |-> None]
    /\ current = None
    /\ mtx = None
    /\ ctx = None
    /\ last_log = <<>>
    /\ slow = NoSearch
    /\ first_block = None
    /\ ftx = None

\* before BlockChannel::new
ChannelInit ==
    /\ channel = [mode |-> "none", handle |-> FALSE, task |-> "none",
                  changes |-> <<>>, stream_map |-> <<>>, last_seqno |-> 0,
                  members |-> {}]
    /\ joined = <<>>
    /\ subscriber = [on |-> FALSE, since |-> 0, inbox |-> <<>>]

\* a Balance before a request is called on it
BalanceInit ==
    balance = [pc |-> "idle", resolved |-> 0, routed |-> None,
               contacted |-> <<>>, answered |-> None, response |-> None]

\* a call of AsyncClient before execute
NewExecute == [pc |-> "new", id |-> "none", chan |-> "none", value |-> None]

\* AsyncClient::new: an empty table, nothing sent to the library
AsyncInit ==
    async_client = [calls |-> [c \in Calls |-> NewExecute],
                    responses |-> <<>>, wire |-> {}, discarded |-> {}]

\* a CursorClient not yet polled
CursorInit == cursor = [polled |-> "none", called |-> None]

\* the tasks that each own a clone of one SharedService
Clones == 1..MaxClones

\* SharedService::new: the mutex is free; every task is about to poll
SharedInit ==
    shared = [lock |-> None, ready |-> FALSE, wakers |-> {},
              pc |-> [t \in Clones |-> "idle"],
              woken |-> [t \in Clones |-> TRUE]]

\* WorkchainsLastBlocksTracker::new: an empty map, an empty channel, the
\* actor at its first receiver.changed()
WorkchainsInit ==
    workchains = [pc |-> "changed", last |-> 0, seen |-> 0, block |-> 0,
                  result |-> "none", shards |-> <<>>, state |-> <<>>,
                  sent |-> <<>>, handle |-> TRUE,
                  subscriber |-> [on |-> FALSE, next |-> 1, got |-> None,
                                  read |-> None]]

ServiceInit == CursorInit /\ SharedInit /\ WorkchainsInit

NodeInit ==
    TrackerInit /\ ChannelInit /\ BalanceInit /\ AsyncInit /\ ServiceInit

Init == RouteInit /\ RouterInit /\ ClientInit /\ NodeInit

(* ---------------------- evaluation of routes --------------------------- *)
\* the caller collects one more node into the iterable it hands to choose
Push(s) ==
    /\ evaluated = None
    /\ Len2(from) < MaxNodes
    /\ from' = from (+) SetToBag({s})
    /\ UNCHANGED evaluated

\* Route::choose and Router::call of balance.rs over the collected nodes
BalanceEvaluate(route) ==
    /\ evaluated = None
    /\ evaluated' = Some([impl |-> "balance", route |-> route,
                          chosen |-> balance_choose(route, from),
                          called |-> balance_call(route, from)])
    /\ UNCHANGED from

\* Route::choose of ton-client-util and Router::call of router.rs
Evaluate(route) ==
    /\ evaluated = None
    /\ evaluated' = Some([impl |-> "router", route |-> route,
                          chosen |-> choose(route, from),
                          called |-> call(route, from)])
    /\ UNCHANGED from

RouteNext ==
    \/ \E s \in CursorClients : Push(s) /\ UNCHANGED <<routerVars, clientVars, nodeVars>>
    \/ \E route \in BalanceRoutes : BalanceEvaluate(route) /\ UNCHANGED <<routerVars, clientVars, nodeVars>>
    \/ \E route \in Routes : Evaluate(route) /\ UNCHANGED <<routerVars, clientVars, nodeVars>>

RouteSpec == Init /\ [][RouteNext]_vars

(* ------------------------ Router as a service -------------------------- *)
\* the membership stream produces a change
Discover(change) ==
    /\ Len(discover) < MaxQueue
    /\ discover' = Append(discover, change)
    /\ sent' = [sent EXCEPT ![change.key] = Some(change)]
    /\ polled' = None
    /\ UNCHANGED <<services, rx, woken>>

\* a node's fast loop publishes its last header (ctx.send), its slow loop
\* its first header (ftx.send)
PublishLast(n) ==
    /\ rx' = [rx EXCEPT ![n].last_block_rx = Some(BlockChannelItem(1))]
    /\ rx' # rx
    /\ polled' = None
    /\ UNCHANGED <<discover, services, sent, woken>>

PublishFirst(n) ==
    /\ rx' = [rx EXCEPT ![n].first_block_rx = Some(BlockChannelItem(1))]
    /\ rx' # rx
    /\ polled' = None
    /\ UNCHANGED <<discover, services, sent, woken>>

\* mutant: an Insert adds an entry without replacing the key's old one
apply_change_keep_old(map, change) ==
    IF change.change = "Remove"
    THEN HashMapRemove(map, change.key)
    ELSE map \cup {[key |-> change.key, svc |-> change.svc]}

\* one arm of the match in update_pending_from_discover
apply_change(map, change) ==
    IF change.change = "Remove"
    THEN HashMapRemove(map, change.key)
    ELSE HashMapInsert(map, change.key, change.svc)

\* the loop of update_pending_from_discover over the changes the stream yields
RECURSIVE update_pending_from_discover(_, _)
update_pending_from_discover(map, changes) ==
    IF changes = <<>> THEN map
    ELSE update_pending_from_discover(apply_change(map, Head(changes)), Tail(changes))

\* mutant: readiness is decided on the map as it was before the changes
poll_ready_stale(taken, failed) ==
    /\ taken \in 0..Len(discover)
    /\ ~failed => taken = Len(discover)
    /\ services' = update_pending_from_discover(services, SubSeq(discover, 1, taken))
    /\ discover' = SubSeq(discover, taken + 1, Len(discover))
    /\ IF failed
       THEN polled' = Some("Err") /\ woken' = FALSE
       ELSE IF \E e \in services : edges_defined(rx[e.svc])
            THEN polled' = Some("Ready") /\ woken' = FALSE
            ELSE polled' = Some("Pending") /\ woken' = TRUE
    /\ UNCHANGED <<rx, sent>>

\* Router::poll_ready of router.rs.  The stream yields its first `taken`
\* changes and then either has nothing more at the moment or, when `failed`,
\* yields an error, which ends the loop and the readiness check.
poll_ready(taken, failed) ==
    /\ taken \in 0..Len(discover)
    /\ ~failed => taken = Len(discover)
    /\ services' = update_pending_from_discover(services, SubSeq(discover, 1, taken))
    /\ discover' = SubSeq(discover, taken + 1, Len(discover))
    /\ IF failed
       THEN polled' = Some("Err") /\ woken' = FALSE
       ELSE IF \E e \in services' : edges_defined(rx[e.svc])
            THEN polled' = Some("Ready") /\ woken' = FALSE
            ELSE polled' = Some("Pending") /\ woken' = TRUE
    /\ UNCHANGED <<rx, sent>>

\* Router::poll_ready of balance.rs (its update_pending_from_discover also
\* forwards each change to the first_headers and last_headers channels,
\* which leaves the fields modelled here untouched)
balance_poll_ready(taken, failed) ==
    /\ taken \in 0..Len(discover)
    /\ ~failed => taken = Len(discover)
    /\ services' = update_pending_from_discover(services, SubSeq(discover, 1, taken))
    /\ discover' = SubSeq(discover, taken + 1, Len(discover))
    /\ IF failed
       THEN polled' = Some("Err") /\ woken' = FALSE
       ELSE IF \E e \in services' : IsSome(headers(rx[e.svc], MasterChain))
            THEN polled' = Some("Ready") /\ woken' = FALSE
            ELSE polled' = Some("Pending") /\ woken' = TRUE
    /\ UNCHANGED <<rx, sent>>

Next ==
    \/ \E change \in Changes : Discover(change) /\ UNCHANGED <<routeVars, clientVars, nodeVars>>
    \/ \E n \in NodeIds : PublishLast(n) /\ UNCHANGED <<routeVars, clientVars, nodeVars>>
    \/ \E n \in NodeIds : PublishFirst(n) /\ UNCHANGED <<routeVars, clientVars, nodeVars>>
    \/ \E taken \in 0..MaxQueue, failed \in BOOLEAN :
          poll_ready(taken, failed) /\ UNCHANGED <<routeVars, clientVars, nodeVars>>
    \/ \E taken \in 0..MaxQueue, failed \in BOOLEAN :
          balance_poll_ready(taken, failed) /\ UNCHANGED <<routeVars, clientVars, nodeVars>>

Spec == Init /\ [][Next]_vars

(* ------------------------------ claims --------------------------------- *)
\* the evaluation recorded in the state
Ev == Unwrap(evaluated)

\* the header of the chain in a published (master, worker) item
HeaderOf(item, chain) == CHOOSE h \in {item[1], item[2]} : h.id.workchain = chain

\* both ends of the node's window are published
WindowDefined(s) == s.first_block_rx # None /\ s.last_block_rx # None
FirstOf(s, chain) == HeaderOf(Unwrap(s.first_block_rx), chain)
LastOf(s, chain) == HeaderOf(Unwrap(s.last_block_rx), chain)

\* the nodes evaluated whose window for the chain contains the seqno / the lt
WindowHasSeqno(s, chain, q) ==
    /\ WindowDefined(s)
    /\ FirstOf(s, chain).id.seqno <= q
    /\ q <= LastOf(s, chain).id.seqno
WindowHasLt(s, chain, lt) ==
    /\ WindowDefined(s)
    /\ FirstOf(s, chain).start_lt <= lt
    /\ lt <= LastOf(s, chain).end_lt

\* the candidates an evaluation returned (none when it failed)
Candidates ==
    IF Ev.impl = "balance" THEN Ev.chosen
    ELSE IF Ev.chosen.ok THEN Ev.chosen.services ELSE EmptyBag

\* `got` holds exactly the evaluated nodes that satisfy P, each as often as
\* it was handed in
ExactlyThose(got, P(_)) ==
    \A s \in CursorClients :
        CopiesIn(s, got) = IF s \in DOMAIN from /\ P(s) THEN CopiesIn(s, from) ELSE 0

IsSeqnoRoute == evaluated # None /\ Ev.route.type = "Block" /\ Ev.route.criteria.type = "Seqno"
IsLtRoute == evaluated # None /\ Ev.route.type = "Block" /\ Ev.route.criteria.type = "LogicalTime"
IsLatestRoute == evaluated # None /\ Ev.route.type = "Latest"

\* C1: for a Block route with Seqno criteria, both Route::choose functions
\* return exactly the nodes whose window for the requested chain satisfies
\* first.seqno <= seqno <= last.seqno, and the candidate list is non-empty
\* iff some evaluated node's window contains the seqno.
C1_SeqnoCandidates ==
    IsSeqnoRoute =>
        LET In(s) == WindowHasSeqno(s, Ev.route.chain, Ev.route.criteria.seqno)
        IN /\ ExactlyThose(Candidates, In)
           /\ (Candidates # EmptyBag) <=> (\E s \in DOMAIN from : In(s))
           /\ Ev.impl = "router" => (Ev.chosen.ok <=> (\E s \in DOMAIN from : In(s)))

\* a seqno route evaluated by balance.rs over nodes of which one contains
\* the seqno and another, with a defined window, does not
C1_Witness ==
    /\ IsSeqnoRoute
    /\ Ev.impl = "balance"
    /\ \E s, u \in DOMAIN from :
          /\ WindowHasSeqno(s, Ev.route.chain, Ev.route.criteria.seqno)
          /\ WindowDefined(u)
          /\ ~WindowHasSeqno(u, Ev.route.chain, Ev.route.criteria.seqno)
    /\ Candidates # EmptyBag

\* C2: a Block route evaluated by ton-client-util's choose over nodes none of
\* which contains the position fails; with RouteNotAvailable iff some node
\* reports contains_not_available for the chain and criteria, and with
\* RouteUnknown iff none does.
C2_EmptyOutcome ==
    (evaluated # None /\ Ev.impl = "router" /\ Ev.route.type = "Block"
        /\ \A s \in DOMAIN from : ~contains(s, Ev.route.chain, Ev.route.criteria))
    => LET known == \E s \in DOMAIN from :
                        contains_not_available(s, Ev.route.chain, Ev.route.criteria)
       IN /\ ~Ev.chosen.ok
          /\ Ev.chosen.err \in {"RouteNotAvailable", "RouteUnknown"}
          /\ (Ev.chosen.err = "RouteNotAvailable") <=> known
          /\ (Ev.chosen.err = "RouteUnknown") <=> ~known

\* no node contains the position, one reports it as not available and
\* another does not
C2_Witness ==
    /\ evaluated # None /\ Ev.impl = "router" /\ Ev.route.type = "Block"
    /\ \A s \in DOMAIN from : ~contains(s, Ev.route.chain, Ev.route.criteria)
    /\ \E s, u \in DOMAIN from :
          /\ contains_not_available(s, Ev.route.chain, Ev.route.criteria)
          /\ ~contains_not_available(u, Ev.route.chain, Ev.route.criteria)
    /\ ~Ev.chosen.ok

\* C3: for a Block route with LogicalTime(lt) criteria, balance.rs's choose
\* returns exactly the nodes with a defined window for the chain that
\* satisfies first.start_lt <= lt <= last.end_lt.
C3_LtCandidates ==
    (IsLtRoute /\ Ev.impl = "balance") =>
        LET In(s) == WindowHasLt(s, Ev.route.chain, Ev.route.criteria.lt)
        IN ExactlyThose(Ev.chosen, In)

\* a logical-time route over nodes with defined windows of which one covers
\* the lt and one does not, while a seqno of the same value would be
\* contained in neither
C3_Witness ==
    /\ IsLtRoute /\ Ev.impl = "balance"
    /\ \E s, u \in DOMAIN from :
          /\ WindowHasLt(s, Ev.route.chain, Ev.route.criteria.lt)
          /\ ~WindowHasSeqno(s, Ev.route.chain, Ev.route.criteria.lt)
          /\ WindowDefined(u)
          /\ ~WindowHasLt(u, Ev.route.chain, Ev.route.criteria.lt)
    /\ Ev.chosen # EmptyBag

\* Latest as each implementation ranks it: ton-client-util by the masterchain
\* head of every node whose last header is published, balance.rs by the last
\* header of the route's chain of every node with both headers published
HeadKnown(s) ==
    IF Ev.impl = "balance" THEN WindowDefined(s) ELSE s.last_block_rx # None
HeadSeqno(s) ==
    IF Ev.impl = "balance" THEN LastOf(s, Ev.route.chain).id.seqno
    ELSE LastOf(s, MasterChain).id.seqno
HeadSeqnos == {HeadSeqno(s) : s \in {x \in DOMAIN from : HeadKnown(x)}}
\* the evaluated nodes that report head seqno q
GroupOf(q) == [s \in {x \in DOMAIN from : HeadKnown(x) /\ HeadSeqno(x) = q} |-> from[s]]
Quorate == {q \in HeadSeqnos : BagCardinality(GroupOf(q)) > 2}

\* C4: choose(Latest) returns the first group, in descending seqno order,
\* that has more than 2 members, and so never a group of size <= 2 while a
\* group with more than 2 members exists at a lower seqno.
C4_LatestQuorum ==
    IsLatestRoute =>
        /\ Quorate # {} => Candidates = GroupOf(Max(Quorate))
        /\ (Candidates # EmptyBag /\ BagCardinality(Candidates) <= 2) => Quorate = {}

\* the same property of balance.rs's choose alone
BalanceLatestQuorum ==
    (IsLatestRoute /\ Ev.impl = "balance") =>
        /\ Quorate # {} => Candidates = GroupOf(Max(Quorate))
        /\ (Candidates # EmptyBag /\ BagCardinality(Candidates) <= 2) => Quorate = {}

\* C5: when no group of nodes with equal head seqno has more than 2
\* members, choose(Latest) fails (ton-client-util with RouteUnknown,
\* balance.rs's Router::call with its error), and no group of 1 or 2 nodes
\* is ever returned as the Latest candidates.
C5_LatestNoQuorumFails ==
    IsLatestRoute =>
        /\ Quorate = {} =>
              IF Ev.impl = "balance"
              THEN Ev.chosen = EmptyBag /\ ~Ev.called.ok
              ELSE Ev.chosen = Err("RouteUnknown")
        /\ Candidates # EmptyBag => BagCardinality(Candidates) > 2

\* C6: over nodes of which at least one has a known head, ton-client-util's
\* choose(Latest) returns exactly the nodes whose last seqno is the maximum
\* among the nodes with a known head.
C6_LatestMaxSeqno ==
    (IsLatestRoute /\ Ev.impl = "router" /\ HeadSeqnos # {}) =>
        LET AtMax(s) == HeadKnown(s) /\ HeadSeqno(s) = Max(HeadSeqnos)
        IN /\ Ev.chosen.ok
           /\ ExactlyThose(Ev.chosen.services, AtMax)

\* heads at two different seqnos and a node without a head
C6_Witness ==
    /\ IsLatestRoute /\ Ev.impl = "router"
    /\ Cardinality(HeadSeqnos) >= 2
    /\ \E s \in DOMAIN from : ~HeadKnown(s)
    /\ Ev.chosen.ok

\* C7: ton-client-util's choose(Latest) over nodes none of which has a known
\* head, the empty collection included, fails with RouteUnknown.
C7_LatestNoHeadUnknown ==
    (IsLatestRoute /\ Ev.impl = "router" /\ \A s \in DOMAIN from : ~HeadKnown(s))
    => Ev.chosen = Err("RouteUnknown")

\* two or more nodes, none with a published head
C7_Witness ==
    /\ IsLatestRoute /\ Ev.impl = "router"
    /\ BagCardinality(from) >= 2
    /\ \A s \in DOMAIN from : ~HeadKnown(s)
    /\ ~Ev.chosen.ok

\* what Latest yields over the evaluated nodes in ton-client-util
LatestOutcome ==
    IF \E s \in DOMAIN from : s.last_block_rx # None
    THEN LET top == Max({LastOf(s, MasterChain).id.seqno :
                            s \in {x \in DOMAIN from : x.last_block_rx # None}})
         IN Ok([s \in {x \in DOMAIN from : x.last_block_rx # None
                                            /\ LastOf(x, MasterChain).id.seqno = top}
                  |-> from[s]])
    ELSE Err("RouteUnknown")

\* C8: Router::call (router.rs) on a Block route returns the candidates of
\* the direct evaluation unchanged; surfaces RouteNotAvailable without a
\* fallback; and on RouteUnknown returns what Latest yields over the same
\* nodes (candidates, or RouteUnknown when Latest fails too).
C8_CallFallback ==
    (evaluated # None /\ Ev.impl = "router" /\ Ev.route.type = "Block") =>
        /\ Ev.chosen.ok => Ev.called = Ev.chosen
        /\ (~Ev.chosen.ok /\ Ev.chosen.err = "RouteNotAvailable")
              => Ev.called = Err("RouteNotAvailable")
        /\ (~Ev.chosen.ok /\ Ev.chosen.err = "RouteUnknown")
              => Ev.called = LatestOutcome

\* the direct evaluation is unknown and the fallback finds candidates
C8_Witness ==
    /\ evaluated # None /\ Ev.impl = "router" /\ Ev.route.type = "Block"
    /\ ~Ev.chosen.ok /\ Ev.chosen.err = "RouteUnknown"
    /\ Ev.called.ok
    /\ BagCardinality(from) >= 2

\* the same property of balance.rs alone: without a group of more than 2
\* members its Router::call fails
BalanceLatestNoQuorumFails ==
    (IsLatestRoute /\ Ev.impl = "balance" /\ Quorate = {}) => ~Ev.called.ok

\* the tracked entries of a key
Tracked(k) == {e \in services : e.key = k}
\* no change of the key waits in the membership stream
Drained(k) == \A i \in 1..Len(discover) : discover[i].key # k

\* C9: once the Router has drained the membership changes of a key, the key
\* is tracked iff its last change was an Insert and then maps to the node of
\* that Insert; with the whole stream drained the tracked map is the net
\* effect of all changes; no key is ever tracked twice.
C9_TrackedNetEffect ==
    /\ \A k \in Keys :
          Drained(k) =>
              Tracked(k) = IF sent[k] # None /\ Unwrap(sent[k]).change = "Insert"
                           THEN {[key |-> k, svc |-> Unwrap(sent[k]).svc]}
                           ELSE {}
    /\ \A e1, e2 \in services : e1.key = e2.key => e1 = e2

\* a drained stream whose last changes were a Remove of one key and an
\* Insert of the other
C9_Witness ==
    /\ polled # None
    /\ discover = <<>>
    /\ sent["a"] = Some(Remove("a"))
    /\ sent["b"] = Some(Insert("b", "n2"))
    /\ services = {[key |-> "b", svc |-> "n2"]}

\* some tracked node has a defined masterchain window
SomeNodeReady == \E e \in services : WindowDefined(rx[e.svc])

\* C10 as stated: every readiness check applies all membership changes
\* available, reports ready only if some tracked node has a defined
\* masterchain window, and while none has one stays pending, with the task
\* woken again, rather than reporting ready or an error.
C10_ReadinessAsStated ==
    polled # None =>
        /\ discover = <<>>
        /\ Unwrap(polled) = "Ready" => SomeNodeReady
        /\ ~SomeNodeReady => (Unwrap(polled) = "Pending" /\ woken)

\* C10 amended: a readiness check on which the membership stream yields no
\* error applies all changes available, reports ready only if some tracked
\* node has a defined masterchain window, and otherwise stays pending with
\* the task woken again; when the stream yields an error the check returns
\* that error.
C10_Readiness ==
    (polled # None /\ Unwrap(polled) # "Err") =>
        /\ discover = <<>>
        /\ Unwrap(polled) = "Ready" => SomeNodeReady
        /\ ~SomeNodeReady => (Unwrap(polled) = "Pending" /\ woken)

\* a check that stays pending although both keys are tracked and one node
\* has published its last header
C10_Witness ==
    /\ polled = Some("Pending")
    /\ woken
    /\ Cardinality(services) = 2
    /\ \E e \in services : rx[e.svc].last_block_rx # None
    /\ ~SomeNodeReady

(* =================== LiteServerClient (client.rs) ====================== *)
\* everything the routing layer owns
routingVars == <<from, evaluated, discover, services, rx, sent, polled, woken,
                 nodeVars>>

\* the task has ended (break, return or panic) and dropped the receiver of tx
tx_never_closed == FALSE
tx_is_closed == actor \in {"cancelled", "failed", "panicked"}

\* the call's ResponseFuture is in state Rx and owns the oneshot receiver
IsRx(c) == calls[c].pc \in {"rx", "rx_done"}
\* the receiver of the call's oneshot channel has not been dropped
ReceiverAlive(c) == calls[c].pc \in {"mid", "rx", "rx_done"}

\* the sender of call o leaves the table without being sent on: dropped
DropSender(cs, o) ==
    IF cs[o].chan = "open" THEN [cs EXCEPT ![o].chan = "closed"] ELSE cs

\* the DropGuard is shared by the handles and by every future in state Rx;
\* the token is cancelled when the last of them is dropped
token_cancelled_by_handle == ~handle
token_cancelled == ~handle /\ \A c \in Calls : ~IsRx(c)

\* Service::poll_ready; the calls are numbered in the order they ask
client_poll_ready(c) ==
    /\ handle
    /\ calls[c].pc = "new"
    /\ \A d \in Calls : d < c => calls[d].pc # "new"
    /\ calls' = IF tx_is_closed
                THEN [calls EXCEPT ![c].pc = "refused",
                                   ![c].output = Some(ErrorOutput("ChannelClosed"))]
                ELSE [calls EXCEPT ![c].pc = "ready"]
    /\ UNCHANGED <<responses, tx, inner, holding, actor, handle, idle, probes>>

\* responses.insert(query_id, tx) with query_id = random(): a sender already
\* stored under the id is replaced and dropped
InsertSlot(c, id) ==
    LET created == [calls EXCEPT ![c].query_id = id, ![c].chan = "open",
                                 ![c].inserted = TRUE]
    IN  /\ responses' = DashMapInsert(responses, id, c)
        /\ calls' = [(IF id \in DOMAIN responses
                      THEN DropSender(created, responses[id])
                      ELSE created) EXCEPT ![c].pc = "mid"]
        /\ UNCHANGED tx

\* self.tx.send(request) and the future call returns
SendRequest(c) ==
    IF tx_is_closed
    THEN /\ calls' = [calls EXCEPT ![c].pc = "failed"]
         /\ UNCHANGED <<responses, tx>>
    ELSE /\ tx' = Append(tx, c)
         /\ calls' = [calls EXCEPT ![c].pc = "rx"]
         /\ UNCHANGED responses

\* Service::call with the request handed to the actor before the slot exists
client_call_send_first(c, id, step) ==
    /\ handle
    /\ \/ /\ step = 1
          /\ calls[c].pc = "ready"
          /\ IF tx_is_closed
             THEN calls' = [calls EXCEPT ![c].pc = "failed"] /\ UNCHANGED tx
             ELSE /\ tx' = Append(tx, c)
                  /\ calls' = [calls EXCEPT ![c].pc = "mid", ![c].query_id = id,
                                            ![c].chan = "open"]
          /\ UNCHANGED responses
       \/ /\ step = 2
          /\ calls[c].pc = "mid"
          /\ id = calls[c].query_id
          /\ responses' = DashMapInsert(responses, id, c)
          /\ calls' = [calls EXCEPT ![c].pc = "rx", ![c].inserted = TRUE]
          /\ UNCHANGED tx
    /\ UNCHANGED <<inner, holding, actor, handle, idle, probes>>

\* Service::call: step 1 draws the id and inserts the slot (lines 134-139),
\* step 2 hands the query to the actor and returns the future (140-144)
client_call(c, id, step) ==
    /\ handle
    /\ \/ /\ step = 1
          /\ calls[c].pc = "ready"
          /\ InsertSlot(c, id)
       \/ /\ step = 2
          /\ calls[c].pc = "mid"
          /\ id = calls[c].query_id
          /\ SendRequest(c)
    /\ UNCHANGED <<inner, holding, actor, handle, idle, probes>>

\* ResponseFuture::poll when it returns Ready
ResponseFuture_poll(c) ==
    /\ \/ /\ calls[c].pc = "failed"
          /\ calls' = [calls EXCEPT ![c].pc = "failed_done",
                                    ![c].output = Some(ErrorOutput("ChannelClosed"))]
       \/ /\ calls[c].pc = "rx"
          /\ calls[c].chan = "sent"
          /\ calls' = [calls EXCEPT ![c].pc = "rx_done",
                 ![c].output = Some(Result_deserialize_boxed(Unwrap(calls[c].value)))]
       \/ /\ calls[c].pc = "rx"
          /\ calls[c].chan = "closed"
          /\ calls' = [calls EXCEPT ![c].pc = "rx_done",
                                    ![c].output = Some(ErrorOutput("OneshotClosed"))]
    /\ UNCHANGED <<responses, tx, inner, holding, actor, handle, idle, probes>>

\* the future of call c is gone, with the receiver, payload and output it held
Dropped(cs, c) ==
    [cs EXCEPT ![c].pc = "dropped", ![c].chan = "none", ![c].value = None,
               ![c].output = None]

\* PinnedDrop that leaves the table alone
ResponseFuture_drop_keep_slot(c) ==
    /\ calls[c].pc \in {"failed", "failed_done", "rx", "rx_done"}
    /\ calls' = Dropped(calls, c)
    /\ UNCHANGED <<responses, tx, inner, holding, actor, handle, idle, probes>>

\* PinnedDrop for ResponseFuture, then the drop of its fields
ResponseFuture_drop(c) ==
    /\ \/ /\ calls[c].pc \in {"failed", "failed_done"}
          /\ calls' = Dropped(calls, c)
          /\ UNCHANGED responses
       \/ /\ IsRx(c)
          /\ responses' = DashMapRemove(responses, calls[c].query_id)
          /\ calls' = Dropped(IF calls[c].query_id \in DOMAIN responses
                              THEN DropSender(calls, responses[calls[c].query_id])
                              ELSE calls, c)
    /\ UNCHANGED <<tx, inner, holding, actor, handle, idle, probes>>

\* the last LiteServerClient handle is dropped (call borrows it mutably)
drop_client ==
    /\ handle
    /\ \A c \in Calls : calls[c].pc # "mid"
    /\ handle' = FALSE
    /\ UNCHANGED <<calls, responses, tx, inner, holding, actor, idle, probes>>

\* the actor is at its select!
Selecting == actor = "running" /\ holding = None

\* the task ends and drops what it owns: the receiver of tx with the
\* queries in it, the connection, the interval and a sender it holds
TaskEnds(how) ==
    /\ actor' = how
    /\ tx' = <<>>
    /\ inner' = {}
    /\ holding' = None
    /\ idle' = FALSE
    /\ probes' = 0

\* select! branch inner_token.cancelled()
actor_cancelled ==
    /\ Selecting
    /\ token_cancelled
    /\ TaskEnds("cancelled")
    /\ UNCHANGED <<calls, responses, handle>>

\* select! branch inner.next(): Ok(packet) if is_pong_packet
actor_pong ==
    /\ Selecting
    /\ probes > 0
    /\ probes' = probes - 1
    /\ UNCHANGED <<calls, responses, tx, inner, holding, actor, handle, idle>>

\* an answer matched to whichever slot the table holds, not to its query_id
actor_answer_any_slot(c, payload) ==
    /\ Selecting
    /\ c \in inner
    /\ payload.body = c
    /\ inner' = inner \ {c}
    /\ IF DOMAIN responses # {}
       THEN LET id == CHOOSE i \in DOMAIN responses : TRUE
            IN  /\ holding' = Some([to |-> responses[id], payload |-> payload])
                /\ responses' = DashMapRemove(responses, id)
       ELSE UNCHANGED <<holding, responses>>
    /\ UNCHANGED <<calls, tx, actor, handle, idle, probes>>

\* select! branch inner.next(): Ok(packet), the answer to query c read from
\* the transport; responses.remove(&adnl_answer.query_id)
actor_answer(c, payload) ==
    /\ Selecting
    /\ c \in inner
    /\ payload.body = c
    /\ inner' = inner \ {c}
    /\ IF calls[c].query_id \in DOMAIN responses
       THEN /\ holding' = Some([to |-> responses[calls[c].query_id],
                                payload |-> payload])
            /\ responses' = DashMapRemove(responses, calls[c].query_id)
       ELSE UNCHANGED <<holding, responses>>
    /\ UNCHANGED <<calls, tx, actor, handle, idle, probes>>

\* oneshot.send(adnl_answer.answer).expect("expect oneshot alive")
actor_send ==
    /\ actor = "running"
    /\ holding # None
    /\ IF ReceiverAlive(Unwrap(holding).to)
       THEN /\ calls' = [calls EXCEPT ![Unwrap(holding).to].chan = "sent",
                          ![Unwrap(holding).to].value = Some(Unwrap(holding).payload)]
            /\ holding' = None
            /\ UNCHANGED <<actor, tx, inner, idle, probes>>
       ELSE /\ TaskEnds("panicked")
            /\ UNCHANGED calls
    /\ UNCHANGED <<responses, handle>>

\* select! branch inner.next(): a packet that is neither a pong nor an
\* AdnlMessageAnswer fails the expect
actor_unexpected_packet ==
    /\ Selecting
    /\ TaskEnds("panicked")
    /\ UNCHANGED <<calls, responses, handle>>

\* select! branch inner.next(): Err(error), the task returns
actor_read_error ==
    /\ Selecting
    /\ TaskEnds("failed")
    /\ UNCHANGED <<calls, responses, handle>>

\* select! branch stream.next(): Ok(adnl_query), written to the transport;
\* the repeating timeout restarts its interval
actor_query ==
    /\ Selecting
    /\ tx # <<>>
    /\ inner' = inner \cup {Head(tx)}
    /\ tx' = Tail(tx)
    /\ idle' = FALSE
    /\ UNCHANGED <<calls, responses, holding, actor, handle, probes>>

\* a ping written whether or not the interval has ticked
actor_ping_eager ==
    /\ Selecting
    /\ probes < MaxProbes
    /\ probes' = probes + 1
    /\ idle' = FALSE
    /\ UNCHANGED <<calls, responses, tx, inner, holding, actor, handle>>

\* select! branch stream.next(): Err(Elapsed), ping_packet() written; the
\* timeout stream yields it only when the queue is empty and the interval
\* has ticked
actor_ping ==
    /\ Selecting
    /\ tx = <<>>
    /\ idle
    /\ probes < MaxProbes
    /\ probes' = probes + 1
    /\ idle' = FALSE
    /\ UNCHANGED <<calls, responses, tx, inner, holding, actor, handle>>

\* the task's 5 s interval ticks
interval_tick ==
    /\ actor = "running"
    /\ ~idle
    /\ idle' = TRUE
    /\ UNCHANGED <<calls, responses, tx, inner, holding, actor, handle, probes>>

\* callers, transport and actor without the keepalive
CallNext ==
    \/ \E c \in Calls : client_poll_ready(c) /\ UNCHANGED routingVars
    \/ \E c \in Calls, id \in Int256 : client_call(c, id, 1) /\ UNCHANGED routingVars
    \/ \E c \in Calls : client_call(c, calls[c].query_id, 2) /\ UNCHANGED routingVars
    \/ \E c \in Calls : ResponseFuture_poll(c) /\ UNCHANGED routingVars
    \/ \E c \in Calls : ResponseFuture_drop(c) /\ UNCHANGED routingVars
    \/ drop_client /\ UNCHANGED routingVars
    \/ actor_cancelled /\ UNCHANGED routingVars
    \/ \E c \in Calls, payload \in Payloads : actor_answer(c, payload) /\ UNCHANGED routingVars
    \/ actor_send /\ UNCHANGED routingVars
    \/ actor_unexpected_packet /\ UNCHANGED routingVars
    \/ actor_read_error /\ UNCHANGED routingVars
    \/ actor_query /\ UNCHANGED routingVars

\* the keepalive touches only the interval and the probes, which no step of
\* CallNext reads
CallSpec == Init /\ [][CallNext]_vars

ClientNext ==
    \/ CallNext
    \/ actor_pong /\ UNCHANGED routingVars
    \/ actor_ping /\ UNCHANGED routingVars
    \/ interval_tick /\ UNCHANGED routingVars

ClientSpec == Init /\ [][ClientNext]_vars

(* ------------------ claims about LiteServerClient ---------------------- *)
\* the calls that have drawn a correlation id drew pairwise different ones
DistinctIds ==
    \A c1, c2 \in Calls :
        c1 # c2 /\ calls[c1].query_id # "none"
            => calls[c1].query_id # calls[c2].query_id
\* the query of call c waits in the outbound queue
Queued(c) == \E i \in 1..Len(tx) : tx[i] = c
OutputOf(c) == Unwrap(calls[c].output)

\* C11: dropping a response future in state Rx removes its correlation id
\* from the pending table in the same step; when the answer to a dropped
\* call is read afterwards (ids not drawn twice), the table, the calls and
\* what the actor holds are all unchanged: it is delivered to no caller.
C11_DropReleasesSlot ==
    [][\A c \in Calls :
        /\ (IsRx(c) /\ calls'[c].pc = "dropped"
                => calls[c].query_id \notin DOMAIN responses')
        /\ (calls[c].pc = "dropped" /\ c \in inner /\ c \notin inner'
              /\ actor' = "running" /\ DistinctIds
                => UNCHANGED <<responses, holding, calls>>)]_vars
\* a call was dropped while its query is on the transport: its id has left
\* the table and its answer is still to be read
C11_Witness ==
    \E c \in Calls :
        /\ DistinctIds
        /\ calls[c].pc = "dropped"
        /\ c \in inner
        /\ calls[c].query_id \notin DOMAIN responses
        /\ actor = "running" /\ holding = None

\* C12: a call only ever receives a payload from a frame carrying its own
\* correlation id, whatever the order the answers are read in; when the
\* outstanding calls drew different ids that payload answers its own
\* request, never another call's.
C12_MatchedById ==
    \A c \in Calls :
        /\ calls[c].value # None =>
             /\ calls[Unwrap(calls[c].value).body].query_id = calls[c].query_id
             /\ (DistinctIds => Unwrap(calls[c].value).body = c)
        /\ calls[c].output # None /\ DistinctIds
             /\ OutputOf(c).kind \in {"Ok", "LiteServerError"}
             => OutputOf(c).body = c
\* two calls outstanding on the transport at once, one answered first
C12_Witness ==
    \E c, d \in Calls :
        /\ c # d
        /\ calls[c].query_id # calls[d].query_id
        /\ calls[d].value # None /\ Unwrap(calls[d].value).body = d
        /\ calls[c].pc = "rx" /\ c \in inner
        /\ calls[c].query_id \in DOMAIN responses

\* C13: the correlation ids of the calls pending on the node are pairwise
\* distinct: no call takes an id that another pending call holds.
C13_IdsUnique ==
    \A c1, c2 \in Calls :
        c1 # c2 /\ calls[c1].pc \in {"mid", "rx"} /\ calls[c2].pc \in {"mid", "rx"}
            => calls[c1].query_id # calls[c2].query_id

\* C14: no slot stays in the pending table after its call has ended: every
\* entry of the table belongs to a call whose future has not been dropped.
C14_SlotLifecycle ==
    \A id \in DOMAIN responses : calls[responses[id]].pc # "dropped"

\* C16: the actor is cancelled only when every handle and every response
\* future in state Rx has been dropped, so a call whose client handle is
\* dropped while it waits keeps a running actor to answer it.
C16_ActorOutlivesHandle ==
    actor = "cancelled" => ~handle /\ \A c \in Calls : ~IsRx(c)
\* the handle is gone and a call is answered by the still running actor
C16_Witness ==
    \E c \in Calls :
        /\ ~handle
        /\ actor = "running"
        /\ calls[c].pc = "rx_done"
        /\ OutputOf(c).kind = "Ok"

\* C17: after a transport read error the actor takes no further step and
\* nothing more is queued or written; a call that then asks for readiness
\* is refused with ChannelClosed, and a call that then sends gets a failed
\* future whose output is ChannelClosed.
C17_ReadErrorClosesClient ==
    [][actor = "failed" =>
        /\ actor' = "failed"
        /\ inner' = inner
        /\ tx' = tx
        /\ \A c \in Calls :
            /\ (calls[c].pc = "new" /\ calls'[c].pc # "new"
                  => /\ calls'[c].pc = "refused"
                     /\ calls'[c].output = Some(ErrorOutput("ChannelClosed")))
            /\ (calls[c].pc = "mid" /\ calls'[c].pc # "mid"
                  => calls'[c].pc = "failed")
            /\ (calls[c].pc = "failed" /\ calls'[c].pc = "failed_done"
                  => calls'[c].output = Some(ErrorOutput("ChannelClosed")))]_vars
\* after a read error one call was refused at readiness, one failed at call
C17_Witness ==
    /\ actor = "failed"
    /\ \E c, d \in Calls :
        /\ calls[c].pc = "refused"
        /\ calls[d].pc = "failed_done"
        /\ ~Queued(d) /\ d \notin inner

\* C18: a query that is in the outbound queue or on the transport belongs
\* to a call whose completion slot has already been inserted.
C18_SlotBeforeSend ==
    \A c \in Calls : Queued(c) \/ c \in inner => calls[c].inserted
\* a query is on the transport and its slot is in the table
C18_Witness ==
    \E c \in Calls :
        /\ c \in inner
        /\ calls[c].query_id \in DOMAIN responses
        /\ responses[calls[c].query_id] = c

\* C19: a ping is written only when the interval has ticked since the last
\* query was taken and the queue is empty; taking a query restarts the
\* interval; reading a pong changes neither the pending table nor any call.
C19_Keepalive ==
    [][/\ (probes' > probes => idle /\ tx = <<>>)
       /\ (Len(tx') < Len(tx) => ~idle')
       /\ (probes' < probes /\ actor' = "running"
              => UNCHANGED <<responses, calls, holding>>)]_vars
\* a ping is unacknowledged while a call is pending
C19_Witness ==
    /\ probes > 0
    /\ \E c \in Calls : calls[c].pc = "rx" /\ calls[c].chan = "open"
                        /\ calls[c].query_id \in DOMAIN responses

\* C20: a completed call in state Rx has exactly one output: Ok with the
\* payload's body if the payload is a well-formed value of the response
\* type, the LiteServerError it carries if it is a well-formed error, a
\* Deserialize error for every other payload, and OneshotClosed if the
\* sender was dropped without a payload.
C20_Outcome ==
    \A c \in Calls :
        calls[c].pc = "rx_done" =>
            /\ calls[c].output # None
            /\ IF calls[c].value # None
               THEN LET p == Unwrap(calls[c].value)
                    IN  OutputOf(c) =
                          IF p.constructor = "T" /\ p.wellformed
                          THEN [kind |-> "Ok", body |-> p.body]
                          ELSE IF p.constructor = "E" /\ p.wellformed
                          THEN [kind |-> "LiteServerError", body |-> p.body]
                          ELSE ErrorOutput("Deserialize")
               ELSE /\ calls[c].chan = "closed"
                    /\ OutputOf(c) = ErrorOutput("OneshotClosed")
\* one call ended with the peer's error, another with a decode error
C20_Witness ==
    \E c, d \in Calls :
        /\ calls[c].pc = "rx_done" /\ OutputOf(c).kind = "LiteServerError"
        /\ calls[d].pc = "rx_done" /\ OutputOf(d).kind = "Deserialize"

(* ------------- LiteServerClient under a fair scheduler ----------------- *)
\* the spawned task is polled whenever one of its select! branches is ready
ActorStep ==
    \/ actor_cancelled
    \/ \E c \in Calls, payload \in Payloads : actor_answer(c, payload)
    \/ actor_send
    \/ actor_query

\* the runtime keeps polling the actor, callers keep polling their futures
CallFairSpec ==
    /\ Init
    /\ [][CallNext]_vars
    /\ WF_vars(ActorStep /\ UNCHANGED routingVars)
    /\ WF_vars(\E c \in Calls : ResponseFuture_poll(c) /\ UNCHANGED routingVars)

\* C15: a call that is pending when the node's last handle has been dropped
\* or its connection has failed eventually completes with an error (unless
\* its caller drops it first); none waits forever.
C15_PendingResolved ==
    \A c \in Calls :
        (calls[c].pc = "rx" /\ calls[c].chan = "open"
            /\ (actor = "failed" \/ ~handle))
        ~> (calls[c].pc = "dropped"
            \/ (calls[c].output # None /\ OutputOf(c).kind # "Ok"))

\* ---------------------------------------------------------------------
\* CursorClient: the two tracker loops of one node (cursor_client.rs)
\* ---------------------------------------------------------------------

\* A header is identified by its masterchain seqno; seqno 0 is the zerostate
TrackedSeqnos == 0..MaxHead

\* MasterchainInfo as far as the loops read it: the last block of the node
MasterchainInfo(seqno) == [last |-> seqno]

\* ceil(log2(n)) for n >= 1
RECURSIVE CeilLog2(_)
CeilLog2(n) == IF n <= 1 THEN 0 ELSE 1 + CeilLog2((n + 1) \div 2)

\* the block id the node answers Sync with: the head it has reached
Sync_result_reversed == MaxHead + 1 - head
Sync_result == head

\* the environment: the node's masterchain grows
HeadGrow ==
    /\ head < MaxHead
    /\ head' = head + 1
    /\ UNCHANGED <<alive, fast, current, mtx, ctx, last_log, slow,
                   first_block, ftx>>

\* the CursorClient and every clone of its receivers are dropped
DropCursorClient ==
    /\ alive
    /\ alive' = FALSE
    /\ UNCHANGED <<head, fast, current, mtx, ctx, last_log, slow,
                   first_block, ftx>>

\* fast loop, a tick up to the comparison: GetMasterchainInfo, then
\* `continue` when the answer equals the remembered info
FastFetch_always_sync(ok) ==
    /\ fast.pc = "tick"
    /\ fast' = IF ok THEN [pc |-> "sync", info |-> Some(MasterchainInfo(head))]
                     ELSE [pc |-> "tick", info |-> None]
    /\ UNCHANGED <<head, alive, current, mtx, ctx, last_log, slow,
                   first_block, ftx>>

FastFetch_ends_on_error(ok) ==
    /\ fast.pc = "tick"
    /\ fast' = IF ~ok THEN [pc |-> "ended", info |-> None]
               ELSE IF current = Some(MasterchainInfo(head))
               THEN [pc |-> "tick", info |-> Some(MasterchainInfo(head))]
               ELSE [pc |-> "sync", info |-> Some(MasterchainInfo(head))]
    /\ UNCHANGED <<head, alive, current, mtx, ctx, last_log, slow,
                   first_block, ftx>>

FastFetch(ok) ==
    /\ fast.pc = "tick"
    /\ fast' = IF ~ok THEN [pc |-> "tick", info |-> None]
               ELSE IF current = Some(MasterchainInfo(head))
               THEN [pc |-> "tick", info |-> Some(MasterchainInfo(head))]
               ELSE [pc |-> "sync", info |-> Some(MasterchainInfo(head))]
    /\ UNCHANGED <<head, alive, current, mtx, ctx, last_log, slow,
                   first_block, ftx>>

\* fast loop, the rest of the tick: sync() (Sync, then GetBlockHeader of
\* the synced id); on success remember and publish, the sends unwrapped;
\* on failure the fetched info is dropped unremembered at the end of the tick
FastSync_remembers_unsynced(ok) ==
    /\ fast.pc = "sync"
    /\ IF ~ok
       THEN /\ fast' = [fast EXCEPT !.pc = "tick"]
            /\ current' = fast.info
            /\ UNCHANGED <<mtx, ctx, last_log>>
       ELSE /\ current' = Some(MasterchainInfo(Sync_result))
            /\ IF alive
               THEN /\ mtx' = Some(MasterchainInfo(Sync_result))
                    /\ ctx' = Some(Sync_result)
                    /\ last_log' = Append(last_log, Sync_result)
                    /\ fast' = [pc |-> "tick", info |-> None]
               ELSE /\ fast' = [pc |-> "ended", info |-> None]
                    /\ UNCHANGED <<mtx, ctx, last_log>>
    /\ UNCHANGED <<head, alive, slow, first_block, ftx>>

FastSync(ok) ==
    /\ fast.pc = "sync"
    /\ IF ~ok
       THEN /\ fast' = [fast EXCEPT !.pc = "tick"]
            /\ UNCHANGED <<current, mtx, ctx, last_log>>
       ELSE /\ current' = Some(MasterchainInfo(Sync_result))
            /\ IF alive
               THEN /\ mtx' = Some(MasterchainInfo(Sync_result))
                    /\ ctx' = Some(Sync_result)
                    /\ last_log' = Append(last_log, Sync_result)
                    /\ fast' = [pc |-> "tick", info |-> None]
               ELSE /\ fast' = [pc |-> "ended", info |-> None]
                    /\ UNCHANGED <<mtx, ctx, last_log>>
    /\ UNCHANGED <<head, alive, slow, first_block, ftx>>

\* slow loop, start of a tick with a remembered first block: look it up
\* again; an error forgets it and the search starts in the same tick
SlowValidate_keep(ok) ==
    /\ slow.pc = "tick"
    /\ first_block # None
    /\ slow' = [NoSearch EXCEPT !.lookup = IF ok THEN "ok" ELSE "err"]
    /\ UNCHANGED <<first_block, head, alive, fast, current, mtx, ctx,
                   last_log, ftx>>

SlowValidate(ok) ==
    /\ slow.pc = "tick"
    /\ first_block # None
    /\ IF ok
       THEN /\ slow' = [NoSearch EXCEPT !.lookup = "ok"]
            /\ UNCHANGED first_block
       ELSE /\ slow' = [NoSearch EXCEPT !.pc = "search", !.lookup = "err"]
            /\ first_block' = None
    /\ UNCHANGED <<head, alive, fast, current, mtx, ctx, last_log, ftx>>

\* what this tick's lookup of the remembered first block returned
Revalidated == IF slow.pc = "search" THEN slow.lookup ELSE "none"

\* find_first_block up to the loop: GetMasterchainInfo, the bounds
SearchStart(ok) ==
    /\ \/ slow.pc = "search"
       \/ slow.pc = "tick" /\ first_block = None
    /\ slow' = IF ok
               THEN [pc |-> "probe", length |-> head, lhs |-> 1, rhs |-> head,
                     cur |-> head \div 2, block |-> FALSE, probes |-> 0,
                     result |-> "none", header |-> 0,
                     lookup |-> Revalidated]
               ELSE [NoSearch EXCEPT !.result = "Err", !.lookup = Revalidated]
    /\ UNCHANGED <<head, alive, fast, current, mtx, ctx, last_log,
                   first_block, ftx>>

\* the bounds after one iteration of the loop body
Narrow_keep_cur(s, ok) ==
    LET l == IF ok THEN s.lhs ELSE s.cur
        r == IF ok THEN s.cur ELSE s.rhs
    IN  [s EXCEPT !.lhs = l, !.rhs = r, !.cur = (l + r) \div 2]

Narrow(s, ok) ==
    LET l == IF ok THEN s.lhs ELSE s.cur + 1
        r == IF ok THEN s.cur ELSE s.rhs
    IN  [s EXCEPT !.lhs = l, !.rhs = r, !.cur = (l + r) \div 2]

\* one BlocksLookupBlock of the search at `cur`, then the loop test and,
\* inside the loop, the new bounds and the next `cur`
SearchProbe(ok) ==
    /\ slow.pc = "probe"
    /\ LET probed == [slow EXCEPT !.block = ok, !.probes = @ + 1]
       IN  slow' = IF probed.lhs < probed.rhs
                   THEN Narrow(probed, ok)
                   ELSE [probed EXCEPT !.pc = "finish"]
    /\ UNCHANGED <<head, alive, fast, current, mtx, ctx, last_log,
                   first_block, ftx>>

\* `block?` and GetBlockHeader of the block found, then the slow loop's
\* match: remember and publish (the send unwrapped), or log the error
SearchFinish_unverified(ok) ==
    /\ slow.pc = "finish"
    /\ IF ok
       THEN /\ first_block' = Some(slow.cur)
            /\ IF alive
               THEN /\ ftx' = Some(slow.cur)
                    /\ slow' = [slow EXCEPT !.pc = "tick",
                                            !.result = "Ok",
                                            !.header = slow.cur]
               ELSE /\ slow' = [slow EXCEPT !.pc = "ended",
                                            !.result = "Ok",
                                            !.header = slow.cur]
                    /\ UNCHANGED ftx
       ELSE /\ slow' = [slow EXCEPT !.pc = "tick", !.result = "Err"]
            /\ UNCHANGED <<first_block, ftx>>
    /\ UNCHANGED <<head, alive, fast, current, mtx, ctx, last_log>>

SearchFinish_clears(ok) ==
    /\ slow.pc = "finish"
    /\ IF slow.block /\ ok
       THEN /\ first_block' = Some(slow.cur)
            /\ IF alive
               THEN /\ ftx' = Some(slow.cur)
                    /\ slow' = [slow EXCEPT !.pc = "tick",
                                            !.result = "Ok",
                                            !.header = slow.cur]
               ELSE /\ slow' = [slow EXCEPT !.pc = "ended",
                                            !.result = "Ok",
                                            !.header = slow.cur]
                    /\ UNCHANGED ftx
       ELSE /\ slow' = [slow EXCEPT !.pc = "tick", !.result = "Err"]
            /\ ftx' = None
            /\ UNCHANGED first_block
    /\ UNCHANGED <<head, alive, fast, current, mtx, ctx, last_log>>

SearchFinish(ok) ==
    /\ slow.pc = "finish"
    /\ IF slow.block /\ ok
       THEN /\ first_block' = Some(slow.cur)
            /\ IF alive
               THEN /\ ftx' = Some(slow.cur)
                    /\ slow' = [slow EXCEPT !.pc = "tick",
                                            !.result = "Ok",
                                            !.header = slow.cur]
               ELSE /\ slow' = [slow EXCEPT !.pc = "ended",
                                            !.result = "Ok",
                                            !.header = slow.cur]
                    /\ UNCHANGED ftx
       ELSE /\ slow' = [slow EXCEPT !.pc = "tick", !.result = "Err"]
            /\ UNCHANGED <<first_block, ftx>>
    /\ UNCHANGED <<head, alive, fast, current, mtx, ctx, last_log>>

trackerRest == <<from, evaluated, discover, services, rx, sent, polled,
                 woken, clientVars, channelVars, balance, async_client,
                 serviceVars>>

TrackerNext ==
    \/ HeadGrow /\ UNCHANGED trackerRest
    \/ DropCursorClient /\ UNCHANGED trackerRest
    \/ \E ok \in BOOLEAN : FastFetch(ok) /\ UNCHANGED trackerRest
    \/ \E ok \in BOOLEAN : FastSync(ok) /\ UNCHANGED trackerRest
    \/ \E ok \in BOOLEAN : SlowValidate(ok) /\ UNCHANGED trackerRest
    \/ \E ok \in BOOLEAN : SearchStart(ok) /\ UNCHANGED trackerRest
    \/ \E ok \in BOOLEAN : SearchProbe(ok) /\ UNCHANGED trackerRest
    \/ \E ok \in BOOLEAN : SearchFinish(ok) /\ UNCHANGED trackerRest

TrackerSpec == Init /\ [][TrackerNext]_vars

\* the tracker's state stays in range
TrackerTypeOK ==
    /\ head \in 1..MaxHead
    /\ alive \in BOOLEAN
    /\ fast.pc \in {"tick", "sync", "ended"}
    /\ slow.pc \in {"tick", "search", "probe", "finish", "ended"}
    /\ \A o \in {ctx, ftx, first_block} : o = None \/ Unwrap(o) \in TrackedSeqnos
    /\ \A o \in {mtx, current} : o = None \/ Unwrap(o).last \in TrackedSeqnos

\* a search that has returned a header
Found == slow.result = "Ok"

\* C24: find_first_block makes at most ceil(log2(head)) + 1 lookup probes
\* (the probe before the loop and one per iteration) for every head >= 1 and
\* every pattern of probe outcomes, so it terminates, and the header it
\* returns is the one of the seqno probed last, whose probe succeeded.
C24_SearchBounded ==
    /\ slow.probes <= CeilLog2(slow.length) + 1
    /\ slow.pc = "probe" => slow.lhs <= slow.rhs /\ slow.cur \in 0..slow.rhs
    /\ Found => slow.block /\ slow.header = slow.cur

\* C24 as stated: at most ceil(log2(head)) lookup probes
C24_SearchBoundAsStated ==
    /\ slow.probes <= CeilLog2(slow.length)
    /\ Found => slow.block /\ slow.header = slow.cur

C24_Witness ==
    /\ Found
    /\ slow.length >= 3
    /\ slow.probes = CeilLog2(slow.length) + 1

\* a loop has a step to take
FastCanStep == ENABLED (\E ok \in BOOLEAN : FastFetch(ok) \/ FastSync(ok))
SlowCanStep ==
    ENABLED (\E ok \in BOOLEAN : \/ SlowValidate(ok) \/ SearchStart(ok)
                                 \/ SearchProbe(ok) \/ SearchFinish(ok))

\* C25: while the receivers of the node's channels are alive neither tracker
\* loop has terminated, whatever errors its calls returned: each loop always
\* has a next step; a loop has ended only after the receivers were dropped,
\* when a publish found its channel closed.
C25_LoopsRunWhileObserved ==
    /\ fast.pc = "ended" \/ slow.pc = "ended" => ~alive
    /\ fast.pc # "ended" => FastCanStep
    /\ slow.pc # "ended" => SlowCanStep

\* C25 as stated: neither loop ever terminates, in every state of the
\* published channels
C25_LoopsNeverEnd ==
    /\ fast.pc # "ended" /\ FastCanStep
    /\ slow.pc # "ended" /\ SlowCanStep

C25_Witness ==
    /\ alive
    /\ slow.pc = "tick" /\ slow.result = "Err" /\ slow.probes > 0
    /\ fast.pc = "tick" /\ ctx # None

\* C26: once the first and the last header of a node are both published,
\* the first header's seqno is at most the last header's seqno.
C26_WindowOrdered ==
    ftx # None /\ ctx # None => Unwrap(ftx) <= Unwrap(ctx)

C29_FastLoopFrame ==
    [][/\ fast.pc = "tick" /\ current = Some(MasterchainInfo(head))
            => fast'.pc = "tick" /\ UNCHANGED <<current, mtx, ctx, last_log>>
       /\ fast.pc = "tick" /\ fast' # fast /\ fast'.info # None
          /\ fast'.info # current
            => fast'.pc = "sync" /\ UNCHANGED <<current, mtx, ctx, last_log>>
       /\ last_log' # last_log
            => /\ fast.pc = "sync" /\ fast'.pc = "tick"
               /\ ctx' = Some(Sync_result)
               /\ mtx' = Some(MasterchainInfo(Sync_result))
               /\ current' = mtx'
               /\ last_log' = Append(last_log, Sync_result)
       /\ ctx' # ctx \/ mtx' # mtx => last_log' # last_log]_vars

C29_Witness ==
    /\ fast.pc = "tick"
    /\ fast.info # None /\ fast.info = current
    /\ Len(last_log) >= 2

\* C30: a slow-loop tick with a remembered first block looks it up again;
\* when the lookup succeeds no search runs and nothing is published, when it
\* fails the block is forgotten and the search runs in the same tick, as it
\* does when nothing was remembered. A search that returns a header has it
\* remembered and published; a search that fails changes neither the
\* remembered nor the published first header.
C30_SlowLoopFrame ==
    [][/\ slow.pc = "tick" /\ slow' # slow /\ first_block # None
            => /\ slow'.lookup \in {"ok", "err"}
               /\ UNCHANGED ftx
               /\ slow'.lookup = "ok"
                    => /\ slow'.pc = "tick" /\ slow'.probes = 0
                       /\ UNCHANGED first_block
               /\ slow'.lookup = "err"
                    => slow'.pc = "search" /\ first_block' = None
       /\ slow.pc = "tick" /\ slow' # slow /\ first_block = None
            => /\ slow'.lookup = "none"
               /\ slow'.pc = "probe" \/ slow'.result = "Err"
       /\ slow.pc = "search" /\ slow' # slow
            => slow'.pc = "probe" \/ slow'.result = "Err"
       /\ slow.pc = "finish" /\ slow' # slow /\ slow'.result = "Ok"
            => /\ first_block' = Some(slow.cur)
               /\ alive => ftx' = Some(slow.cur) /\ slow'.pc = "tick"
       /\ slow' # slow /\ slow'.result = "Err"
            => slow'.pc = "tick"
               /\ UNCHANGED ftx
               /\ first_block' = None
       /\ ftx' # ftx => slow.pc = "finish" /\ slow'.result = "Ok"]_vars

C30_Witness ==
    /\ slow.pc = "tick" /\ slow.result = "Err" /\ slow.lookup = "err"
    /\ slow.probes > 0
    /\ first_block = None /\ ftx # None

\* ---------------------------------------------------------------------
\* BlockChannel: the header aggregator (balance.rs)
\* ---------------------------------------------------------------------

BlockChannelModes == {"Max", "Min"}

\* master seqnos of the items the members publish; 0 is the zerostate
ItemSeqnos == 0..MaxSeqno

\* the changes sent to the task (an Insert carries the member's watcher)
BlockChannelChanges == [change : {"Insert", "Remove"}, key : Keys]

\* BlockChannel::new: the two channels, the task with an empty StreamMap
BlockChannel_new(mode) ==
    /\ channel.mode = "none"
    /\ channel' = [channel EXCEPT !.mode = mode, !.handle = TRUE,
                                  !.task = "running"]
    /\ UNCHANGED <<joined, subscriber>>

\* BlockChannel::insert / BlockChannel::remove: send the change
BlockChannel_send(change) ==
    /\ channel.handle
    /\ Len(channel.changes) < MaxChanges
    /\ channel' = [channel EXCEPT !.changes = Append(@, change)]
    /\ UNCHANGED <<joined, subscriber>>

\* BlockChannel::receiver: resubscribe, a receiver of what is sent from now
BlockChannel_receiver ==
    /\ channel.handle
    /\ ~subscriber.on
    /\ subscriber' = [on |-> TRUE, since |-> Len(joined), inbox |-> <<>>]
    /\ UNCHANGED <<channel, joined>>

\* the BlockChannel is dropped with its Router: the changes sender closes
BlockChannel_drop ==
    /\ channel.handle
    /\ channel' = [channel EXCEPT !.handle = FALSE]
    /\ UNCHANGED <<joined, subscriber>>

\* a stream of the map: nothing new to yield, or the unseen value
Seen == None

\* a member's tracker publishes a header with master seqno s: the stream
\* made from a receiver of that watch channel has s to yield next (a value
\* not yet taken is overwritten); nothing of the task changes for a key
\* that has no stream
MemberUpdate(key, s) ==
    /\ channel.mode # "none"
    /\ channel' = IF key \in DOMAIN channel.stream_map
                  THEN [channel EXCEPT !.stream_map[key] = Some(s)]
                  ELSE channel
    /\ UNCHANGED <<joined, subscriber>>

\* StreamMap::insert / StreamMap::remove of the task's stream map
StreamMapInsert(map, key, st) ==
    [k \in DOMAIN map \cup {key} |-> IF k = key THEN st ELSE map[k]]
StreamMapRemove_noop(map, key) == map
StreamMapRemove(map, key) == [k \in DOMAIN map \ {key} |-> map[k]]

\* the first select! branch: apply one change. The stream that
\* WatchStream::from_changes makes of the inserted watcher starts with
\* nothing to yield, or with the watcher's value when that is newer than
\* what the inserted receiver has seen.
TaskChange(st) ==
    /\ channel.task = "running"
    /\ channel.changes # <<>>
    /\ LET c == Head(channel.changes)
           rest == [channel EXCEPT !.changes = Tail(@)]
       IN  IF c.change = "Insert"
           THEN channel' =
                  [rest EXCEPT
                     !.stream_map = StreamMapInsert(@, c.key, st),
                     !.members = @ \cup {c.key}]
           ELSE /\ st = Seen
                /\ channel' =
                     [rest EXCEPT
                        !.stream_map = StreamMapRemove(@, c.key),
                        !.members = @ \ {c.key}]
    /\ UNCHANGED <<joined, subscriber>>

\* the reducer's test of an incoming master seqno
Publishes_by_mode_only(mode, last, s) ==
    IF mode = "Max" THEN s > last ELSE s < last

Publishes(mode, last, s) ==
    \/ last = 0
    \/ IF mode = "Max" THEN s > last ELSE s < last

\* the second select! branch: a member stream yields its unseen value, the
\* reducer publishes it on the broadcast channel or not
TaskItem(key) ==
    /\ channel.task = "running"
    /\ key \in DOMAIN channel.stream_map
    /\ channel.stream_map[key] # Seen
    /\ Len(joined) < MaxLog
    /\ LET s == Unwrap(channel.stream_map[key])
           taken == [channel EXCEPT !.stream_map[key] = Seen]
       IN  IF Publishes(channel.mode, channel.last_seqno, s)
           THEN /\ channel' = [taken EXCEPT !.last_seqno = s]
                /\ joined' = Append(joined, s)
                /\ subscriber' =
                     IF subscriber.on
                     THEN [subscriber EXCEPT !.inbox = Append(@, s)]
                     ELSE subscriber
           ELSE /\ channel' = taken
                /\ UNCHANGED <<joined, subscriber>>

\* select! with every branch disabled: the changes channel is closed and
\* drained and the stream map is empty; the task panics, the broadcast
\* sender is dropped
TaskPanic ==
    /\ channel.task = "running"
    /\ ~channel.handle
    /\ channel.changes = <<>>
    /\ DOMAIN channel.stream_map = {}
    /\ channel' = [channel EXCEPT !.task = "panicked"]
    /\ UNCHANGED <<joined, subscriber>>

channelRest == <<from, evaluated, discover, services, rx, sent, polled,
                 woken, clientVars, trackerVars, balance, async_client,
                 serviceVars>>

ChannelNext ==
    \/ \E m \in BlockChannelModes : BlockChannel_new(m) /\ UNCHANGED channelRest
    \/ \E c \in BlockChannelChanges :
          BlockChannel_send(c) /\ UNCHANGED channelRest
    \/ BlockChannel_receiver /\ UNCHANGED channelRest
    \/ BlockChannel_drop /\ UNCHANGED channelRest
    \/ \E k \in Keys, s \in ItemSeqnos :
          MemberUpdate(k, s) /\ UNCHANGED channelRest
    \/ \E st \in {Seen} \cup {Some(s) : s \in ItemSeqnos} :
          TaskChange(st) /\ UNCHANGED channelRest
    \/ \E k \in Keys : TaskItem(k) /\ UNCHANGED channelRest
    \/ TaskPanic /\ UNCHANGED channelRest

ChannelSpec == Init /\ [][ChannelNext]_vars

\* C22: the seqnos of the items a BlockChannel publishes are strictly
\* increasing in Max mode and strictly decreasing in Min mode.
C22_StrictlyMonotone ==
    \A i, j \in DOMAIN joined :
        i < j => IF channel.mode = "Max"
                 THEN joined[i] < joined[j]
                 ELSE joined[i] > joined[j]

C22_Witness ==
    /\ Len(joined) >= 2
    /\ channel.mode = "Min"
    /\ joined[1] = 0

\* the stream map holds exactly the members inserted and not removed since
MembersTracked == channel.members = DOMAIN channel.stream_map

\* C23: processing or sending Insert and Remove changes leaves the task
\* running (it stops only after the BlockChannel itself is dropped) and a
\* subscriber connected: it is sent every item published after it
\* subscribed. An item is published only for a key that is a member when
\* the item is taken, so none after its Remove was processed, and an update
\* of a member always becomes pending in the task's stream map.
C23_MembershipAtRuntime ==
    [][/\ channel'.task = "panicked" => ~channel'.handle
       /\ channel'.changes # channel.changes => channel'.task = channel.task
       /\ MembersTracked'
       /\ subscriber.on
            => /\ subscriber'.on
               /\ subscriber'.inbox =
                    SubSeq(joined', subscriber'.since + 1, Len(joined'))
       /\ joined' # joined
            => \E k \in channel.members \cap DOMAIN channel.stream_map :
                    /\ channel.stream_map[k] # Seen
                    /\ channel'.stream_map[k] = Seen
                    /\ joined' = Append(joined, Unwrap(channel.stream_map[k]))
       /\ \A k \in DOMAIN channel.stream_map \cap DOMAIN channel'.stream_map :
            (/\ channel.stream_map[k] # Seen
             /\ channel'.stream_map[k] = Seen
             /\ channel'.changes = channel.changes)
              => (joined' # joined <=>
                    Publishes(channel.mode, channel.last_seqno,
                              Unwrap(channel.stream_map[k])))]_vars

C23_Witness ==
    /\ subscriber.on /\ Len(subscriber.inbox) >= 1
    /\ channel.task = "running"
    /\ channel.members = {} /\ channel.changes = <<>>
    /\ subscriber.since > 0

\* ---------------------------------------------------------------------
\* Balance as a service: one call (balance.rs)
\* ---------------------------------------------------------------------

\* what a node answers to the dispatched request
NodeResults == {"Ok", "Err"}

\* Balance::call up to the dispatch: Router::call on the request's route;
\* its error is the call's response, its candidates go to the balancer
Balance_call(route) ==
    /\ balance.pc = "idle"
    /\ LET routed == balance_call(route, from)
       IN  balance' = [balance EXCEPT
                         !.pc = IF routed.ok THEN "dispatch" ELSE "done",
                         !.resolved = @ + 1,
                         !.routed = Some(routed),
                         !.response = IF routed.ok THEN None
                                      ELSE Some([ok |-> FALSE,
                                                 of |-> "router"])]
    /\ UNCHANGED from

\* the candidates the balancer was built over
Dispatchable ==
    IF balance.routed # None /\ Unwrap(balance.routed).ok
    THEN BagToSet(Unwrap(balance.routed).services)
    ELSE {}

\* ErrorService: the inner service's result with its error made an
\* anyhow::Error; nothing is called again
ErrorService(result) == [ok |-> result = "Ok", of |-> "node"]

\* ErrorService over p2c::Balance over ServiceList, driven by oneshot: the
\* balancer picks one candidate, the request is called on it once and the
\* node's result is the response
Dispatch_retrying(node, result) ==
    /\ balance.pc = "dispatch"
    /\ node \in Dispatchable
    /\ balance' = [balance EXCEPT
                     !.pc = IF result = "Ok" THEN "done" ELSE "dispatch",
                     !.contacted = Append(@, node),
                     !.answered = Some(result),
                     !.response = Some(ErrorService(result))]
    /\ UNCHANGED from

Dispatch(node, result) ==
    /\ balance.pc = "dispatch"
    /\ node \in Dispatchable
    /\ balance' = [balance EXCEPT
                     !.pc = "done",
                     !.contacted = Append(@, node),
                     !.answered = Some(result),
                     !.response = Some(ErrorService(result))]
    /\ UNCHANGED from

balanceRest == <<evaluated, routerVars, clientVars, trackerVars, channelVars,
                 async_client, serviceVars>>

BalanceNext ==
    \/ \E s \in CursorClients :
          /\ balance.pc = "idle" /\ Len2(from) < MaxServices
          /\ Push(s) /\ UNCHANGED <<balance, routerVars, clientVars,
                                    trackerVars, channelVars, async_client,
                                    serviceVars>>
    \/ \E route \in BalanceRoutes : Balance_call(route) /\ UNCHANGED balanceRest
    \/ \E node \in CursorClients, result \in NodeResults :
          Dispatch(node, result) /\ UNCHANGED balanceRest

BalanceSpec == Init /\ [][BalanceNext]_vars

\* C21: one Balance call resolves its route once; when the Router returns an
\* error that error is the response and no node was contacted; otherwise
\* exactly one node, one of the Router's candidates, is contacted and its
\* result is the response; never a second node.
C21_OneNodePerCall ==
    /\ balance.resolved <= 1
    /\ Len(balance.contacted) <= 1
    /\ balance.contacted # <<>> => balance.contacted[1] \in Dispatchable
    /\ balance.pc = "done"
         => IF Unwrap(balance.routed).ok
            THEN /\ Len(balance.contacted) = 1
                 /\ balance.response =
                      Some([ok |-> balance.answered = Some("Ok"),
                            of |-> "node"])
                 /\ balance.answered # None
            ELSE /\ balance.contacted = <<>>
                 /\ balance.response = Some([ok |-> FALSE, of |-> "router"])

C21_Witness ==
    /\ balance.pc = "done"
    /\ Len(balance.contacted) = 1
    /\ Cardinality(Dispatchable) >= 2
    /\ balance.answered = Some("Err")

\* ---------------------------------------------------------------------
\* AsyncClient: calls over one tonlib client (tonlibjson-tokio/src/lib.rs)
\* ---------------------------------------------------------------------

\* the values Uuid::new_v4() draws the @extra ids from
Uuids == {"u1", "u2"}

\* execute_typed_with_timeout up to the await: draw the id, insert the
\* oneshot sender under it (a sender already there is replaced and dropped),
\* send the request
execute(c, id) ==
    /\ async_client.calls[c].pc = "new"
    /\ \A d \in Calls : d < c => async_client.calls[d].pc # "new"
    /\ LET table == async_client.responses
           started == [async_client.calls EXCEPT
                         ![c] = [pc |-> "waiting", id |-> id,
                                 chan |-> "open", value |-> None]]
       IN  async_client' =
             [async_client EXCEPT
                !.responses = DashMapInsert(table, id, c),
                !.wire = @ \cup {[id |-> id, of |-> c]},
                !.calls = IF id \in DOMAIN table
                          THEN [started EXCEPT ![table[id]].chan = "closed"]
                          ELSE started]

\* the receive thread: an answer carrying an @extra id; the entry of that
\* id is removed and the answer sent on its sender, which fails silently
\* when the receiving half is gone
receive(m) ==
    /\ m \in async_client.wire
    /\ LET table == async_client.responses
           taken == [async_client EXCEPT !.wire = @ \ {m}]
       IN  IF m.id \notin DOMAIN table
           THEN async_client' = taken
           ELSE LET owner == table[m.id]
                    removed ==
                      [taken EXCEPT !.responses = DashMapRemove(table, m.id)]
                IN  async_client' =
                      IF async_client.calls[owner].pc = "waiting"
                      THEN [removed EXCEPT
                              !.calls[owner].value = Some(m.of),
                              !.calls[owner].chan = "sent"]
                      ELSE [removed EXCEPT !.discarded = @ \cup {m}]

\* the await returns the answer
execute_returns(c) ==
    /\ async_client.calls[c].pc = "waiting"
    /\ async_client.calls[c].value # None
    /\ async_client' = [async_client EXCEPT !.calls[c].pc = "answered"]

\* the timeout elapses first: `timeout(..).await?` returns the error
execute_times_out(c) ==
    /\ async_client.calls[c].pc = "waiting"
    /\ async_client.calls[c].chan = "open"
    /\ async_client' = [async_client EXCEPT !.calls[c].pc = "timed_out"]

\* the sender was dropped unsent: the RecvError arm removes the entry of
\* the call's id and returns the error
execute_recv_error(c) ==
    /\ async_client.calls[c].pc = "waiting"
    /\ async_client.calls[c].chan = "closed"
    /\ async_client' =
         [async_client EXCEPT
            !.calls[c].pc = "failed",
            !.responses = DashMapRemove(@, async_client.calls[c].id)]

\* the caller drops the execute future while it waits
execute_dropped(c) ==
    /\ async_client.calls[c].pc = "waiting"
    /\ async_client' = [async_client EXCEPT !.calls[c].pc = "dropped",
                                            !.calls[c].value = None]

asyncRest == <<from, evaluated, routerVars, clientVars, trackerVars,
               channelVars, balance, serviceVars>>

AsyncNext ==
    \/ \E c \in Calls, id \in Uuids : execute(c, id) /\ UNCHANGED asyncRest
    \/ \E m \in [id : Uuids, of : Calls] : receive(m) /\ UNCHANGED asyncRest
    \/ \E c \in Calls : execute_returns(c) /\ UNCHANGED asyncRest
    \/ \E c \in Calls : execute_times_out(c) /\ UNCHANGED asyncRest
    \/ \E c \in Calls : execute_recv_error(c) /\ UNCHANGED asyncRest
    \/ \E c \in Calls : execute_dropped(c) /\ UNCHANGED asyncRest

AsyncSpec == Init /\ [][AsyncNext]_vars

\* the pending table holds the entry this call inserted
HoldsEntryOf(c) ==
    /\ async_client.calls[c].id \in DOMAIN async_client.responses
    /\ async_client.responses[async_client.calls[c].id] = c

\* C28: after a call of AsyncClient has ended, with an answer, with a
\* timeout error or by its future being dropped, the pending table holds no
\* entry of that call, and an answer that arrives after the call ended is
\* never the value of a call still waiting.
C28_LeakFree ==
    /\ \A c \in Calls :
          async_client.calls[c].pc \in {"answered", "timed_out", "dropped"}
              => ~HoldsEntryOf(c)
    /\ \A m \in async_client.discarded, c \in Calls :
          async_client.calls[c].value # Some(m.of)

\* ---------------------------------------------------------------------
\* find_first_block and the fast loop: further properties
\* ---------------------------------------------------------------------

\* a lookup outcome as a node answers it whose first servable seqno is f
Servable(f, seqno) == seqno >= f

\* C31: with the node's servability monotone at f in [1, head], every probe
\* answered accordingly keeps f inside the bounds (a failed probe moves the
\* lower bound to cur + 1, a successful one the upper bound to cur), and
\* when the bounds have met the search ends on a successful probe of f and
\* returns the header of seqno f.
C31_FindsFirstServable ==
    [][/\ slow.pc = "probe" /\ slow' # slow
            => /\ slow'.pc = "probe"
                    => /\ slow'.cur = (slow'.lhs + slow'.rhs) \div 2
                       /\ IF slow'.block
                          THEN slow'.rhs = slow.cur /\ slow'.lhs = slow.lhs
                          ELSE slow'.lhs = slow.cur + 1 /\ slow'.rhs = slow.rhs
               /\ \A f \in 1..slow.length :
                    (/\ f \in slow.lhs..slow.rhs
                     /\ slow'.block <=> Servable(f, slow.cur))
                      => IF slow'.pc = "probe"
                         THEN f \in slow'.lhs..slow'.rhs
                         ELSE slow'.block /\ slow'.cur = f
       /\ slow.pc = "finish" /\ slow'.result = "Ok"
            => slow'.header = slow.cur /\ slow.block]_vars

\* C36: every seqno find_first_block probes, and the seqno of any header it
\* returns, lies inside [1, head].
C36_ProbesInsideRange ==
    /\ slow.pc \in {"probe", "finish"} => slow.cur \in 1..slow.length
    /\ Found => slow.header \in 1..slow.length

\* C37: while the fast loop runs, the remembered head is the snapshot last
\* published; a sync step that publishes nothing changes neither, and the
\* fetched head it failed to sync differs from the remembered one, so the
\* next tick's comparison runs the sync again.
C37_FailedSyncNotRemembered ==
    [][/\ fast'.pc # "ended" => current' = mtx'
       /\ fast.pc = "sync" /\ fast'.pc = "tick" /\ last_log' = last_log
            => /\ UNCHANGED <<current, mtx, ctx>>
               /\ fast'.info # None /\ fast'.info # current'
       /\ fast.pc = "tick" /\ fast' # fast /\ fast'.info # None
          /\ fast'.info # current
            => fast'.pc = "sync"]_vars

C37_Witness ==
    /\ fast.pc = "tick"
    /\ fast.info # None /\ fast.info # current
    /\ current # None /\ current = mtx
    /\ Unwrap(fast.info).last = head

\* ---------------------------------------------------------------------
\* CursorClient as a service (cursor_client.rs)
\* ---------------------------------------------------------------------

\* the requests a CursorClient is called with
SessionRequests == {"GetMasterchainInfo", "Sync", "BlocksLookupBlock"}

\* what the underlying client's poll_ready returns
InnerPolls == {"Ready", "Pending", "Err"}

\* the three watch channels all hold a value
AllPublished == ctx # None /\ ftx # None /\ mtx # None

\* CursorClient::poll_ready: the underlying client's answer once the three
\* channels hold a value, otherwise Pending
CursorClient_poll_ready_untracked(res) ==
    /\ cursor' = [polled |-> res, called |-> None]
    /\ UNCHANGED trackerVars

CursorClient_poll_ready(res) ==
    /\ cursor' = [polled |-> IF AllPublished THEN res ELSE "Pending",
                  called |-> None]
    /\ UNCHANGED trackerVars

\* CursorClient::call on a service that reported ready: GetMasterchainInfo
\* is answered with the value of the masterchain_info channel, any other
\* request is passed to the underlying client
CursorClient_call_forwarding(req) ==
    /\ cursor.polled = "Ready"
    /\ cursor' = [polled |-> "none",
                  called |-> Some([req |-> req, forwarded |-> Some(req),
                                   answer |-> None])]
    /\ UNCHANGED trackerVars

CursorClient_call(req) ==
    /\ cursor.polled = "Ready"
    /\ cursor' =
         [polled |-> "none",
          called |-> Some(IF req = "GetMasterchainInfo"
                          THEN [req |-> req, forwarded |-> None,
                                answer |-> mtx]
                          ELSE [req |-> req, forwarded |-> Some(req),
                                answer |-> None])]
    /\ UNCHANGED trackerVars

serviceRest == <<from, evaluated, routerVars, clientVars, channelVars,
                 balance, async_client, shared, workchains>>

\* the loops of the node, whose head stays below MaxSeqno here, and the
\* service calls on its CursorClient
ServiceNext ==
    \/ head < MaxSeqno /\ HeadGrow /\ UNCHANGED <<cursor, serviceRest>>
    \/ \E ok \in BOOLEAN : FastFetch(ok) /\ UNCHANGED <<cursor, serviceRest>>
    \/ \E ok \in BOOLEAN : FastSync(ok) /\ UNCHANGED <<cursor, serviceRest>>
    \/ \E ok \in BOOLEAN : SlowValidate(ok) /\ UNCHANGED <<cursor, serviceRest>>
    \/ \E ok \in BOOLEAN : SearchStart(ok) /\ UNCHANGED <<cursor, serviceRest>>
    \/ \E ok \in BOOLEAN : SearchProbe(ok) /\ UNCHANGED <<cursor, serviceRest>>
    \/ \E ok \in BOOLEAN : SearchFinish(ok) /\ UNCHANGED <<cursor, serviceRest>>
    \/ \E res \in InnerPolls :
          CursorClient_poll_ready(res) /\ UNCHANGED serviceRest
    \/ \E req \in SessionRequests :
          CursorClient_call(req) /\ UNCHANGED serviceRest

ServiceSpec == Init /\ [][ServiceNext]_vars

\* C32: a GetMasterchainInfo call is not passed to the underlying client and
\* its answer is the snapshot the fast loop published last; every other
\* request is passed to the underlying client as it is.
C32_HeadFromSnapshot ==
    [][cursor'.called # None /\ cursor'.called # cursor.called
         => LET c == Unwrap(cursor'.called)
            IN  IF c.req = "GetMasterchainInfo"
                THEN /\ c.forwarded = None
                     /\ c.answer = mtx /\ mtx # None
                     /\ Unwrap(mtx).last = last_log[Len(last_log)]
                ELSE c.forwarded = Some(c.req) /\ c.answer = None]_vars

C32_Witness ==
    /\ cursor.called # None
    /\ Unwrap(cursor.called).req = "GetMasterchainInfo"
    /\ Unwrap(cursor.called).answer = mtx
    /\ Len(last_log) >= 2

\* C38: a CursorClient reports ready only while its last header, its first
\* header and its masterchain snapshot are all published; a published
\* channel never holds None again; so a GetMasterchainInfo call, made after
\* the service reported ready, is answered with a defined snapshot.
C38_ReadyMeansTracked ==
    [][/\ cursor'.polled \in {"Ready", "Err"} => AllPublished'
       /\ ~AllPublished /\ cursor' # cursor => cursor'.polled = "Pending"
       /\ ctx # None => ctx' # None
       /\ ftx # None => ftx' # None
       /\ mtx # None => mtx' # None
       /\ (/\ cursor'.called # None
           /\ Unwrap(cursor'.called).req = "GetMasterchainInfo")
            => Unwrap(cursor'.called).answer # None]_vars

C38_Witness ==
    /\ cursor.polled = "Ready"
    /\ Len(last_log) >= 2
    /\ ftx # None

(* ------- LiteServerClient: failed calls, cancellation, bad frames ------ *)
\* C33: a call whose request could not be enqueued because the actor's
\* queue is closed fails with ChannelClosed, and from then on the pending
\* table holds no entry for the correlation id drawn for that call.
C33_FailedCallLeavesNoSlot ==
    \A c \in Calls :
        calls[c].pc \in {"failed", "failed_done"} =>
            /\ calls[c].query_id \notin DOMAIN responses
            /\ (calls[c].output # None => OutputOf(c).kind = "ChannelClosed")

\* C34: whatever the interleaving of a caller dropping its future and the
\* receive loop handling the answer with that id, the actor keeps running:
\* a loop that has taken a slot out of the table is still running after it
\* has tried to complete that slot.
C34_CancelKeepsActor ==
    [][actor = "running" /\ holding # None => actor' = "running"]_vars

\* C35: an inbound frame that is neither a pong nor a decodable answer
\* leaves the pending table unchanged and does not stop the actor: at its
\* select the task ends only by cancellation or by a transport read error.
C35_BadFrameIgnored ==
    [][actor = "running" /\ holding = None /\ actor' # "running"
          => actor' \in {"cancelled", "failed"}]_vars

\* ---------------------------------------------------------------------
\* SharedService: one inner service behind Arc<Mutex<S>> (shared.rs)
\* ---------------------------------------------------------------------

\* poll_ready that wakes its own task when the mutex is taken
SharedService_poll_ready_waking(t) ==
    /\ shared.woken[t]
    /\ shared.pc[t] \in {"idle", "pending", "contended"}
    /\ shared' = IF shared.lock = None
                 THEN [shared EXCEPT !.lock = Some(t), !.pc[t] = "locked",
                                     !.woken[t] = FALSE]
                 ELSE [shared EXCEPT !.pc[t] = "contended"]

\* SharedService::poll_ready up to the match on self.inner.try_lock(): the
\* task is polled because it was woken; Ok(lock) enters the inner service,
\* Err(_) returns Poll::Pending and hands cx's waker to nobody
SharedService_poll_ready(t) ==
    /\ shared.woken[t]
    /\ shared.pc[t] \in {"idle", "pending", "contended"}
    /\ shared' = IF shared.lock = None
                 THEN [shared EXCEPT !.lock = Some(t), !.pc[t] = "locked",
                                     !.woken[t] = FALSE]
                 ELSE [shared EXCEPT !.pc[t] = "contended",
                                     !.woken[t] = FALSE]

\* lock.poll_ready(cx) and the drop of the guard: a ready inner service
\* answers Ready, any other keeps cx's waker and answers Pending
Inner_poll_ready(t) ==
    /\ shared.pc[t] = "locked"
    /\ shared' = IF shared.ready
                 THEN [shared EXCEPT !.lock = None, !.pc[t] = "ready"]
                 ELSE [shared EXCEPT !.lock = None, !.pc[t] = "pending",
                                     !.wakers = @ \cup {t}]

\* the inner service becomes ready and invokes the wakers it kept
Inner_becomes_ready ==
    /\ ~shared.ready
    /\ shared' = [shared EXCEPT
                    !.ready = TRUE,
                    !.wakers = {},
                    !.woken = [t \in Clones |-> @[t] \/ t \in shared.wakers]]

\* SharedService::call: self.inner.lock() blocks until the mutex is free,
\* the inner call uses up its readiness; the task then starts its next
\* request
SharedService_call(t) ==
    /\ shared.pc[t] = "ready"
    /\ shared.lock = None
    /\ shared' = [shared EXCEPT !.ready = FALSE, !.pc[t] = "idle",
                                !.woken[t] = TRUE]

sharedRest == <<from, evaluated, routerVars, clientVars, trackerVars,
                channelVars, balance, async_client, cursor, workchains>>

SharedNext ==
    \/ \E t \in Clones : SharedService_poll_ready(t) /\ UNCHANGED sharedRest
    \/ \E t \in Clones : Inner_poll_ready(t) /\ UNCHANGED sharedRest
    \/ Inner_becomes_ready /\ UNCHANGED sharedRest
    \/ \E t \in Clones : SharedService_call(t) /\ UNCHANGED sharedRest

\* the runtime polls every woken task, a task inside poll_ready runs on to
\* its return, the inner service becomes ready again and again, and a task
\* that saw Ready makes its call
SharedFairSpec ==
    /\ Init
    /\ [][SharedNext]_vars
    /\ \A t \in Clones :
          /\ WF_vars(SharedService_poll_ready(t) /\ UNCHANGED sharedRest)
          /\ WF_vars(Inner_poll_ready(t) /\ UNCHANGED sharedRest)
          /\ WF_vars(SharedService_call(t) /\ UNCHANGED sharedRest)
    /\ WF_vars(Inner_becomes_ready /\ UNCHANGED sharedRest)

\* C39: SharedService loses no wakeup: a task that was answered Pending by
\* poll_ready because another clone held the lock is woken again (and so
\* polls again and comes to observe the inner service's readiness).
C39_NoLostWakeup ==
    \A t \in Clones :
        (shared.pc[t] = "contended") ~> (shared.woken[t] \/ shared.pc[t] = "ready")

\* ---------------------------------------------------------------------
\* WorkchainsLastBlocksTracker (tracker/workchains_last_blocks_tracker.rs)
\* ---------------------------------------------------------------------

\* A masterchain block is identified by its position among the values sent
\* on the watch channel; 0 stands for the channel's initial None
Snapshots == 1..MaxSnapshots
ShardIds == {"sh1", "sh2"}

\* the shards of one snapshot in the order shard_hashes.iter() yields them
ShardLists ==
    {<<>>} \cup {<<s>> : s \in ShardIds}
           \cup {l \in ShardIds \X ShardIds : l[1] # l[2]}

\* the answers of the shard-info request: a snapshot, an error, or data
\* that fails to unpack
FetchResults == {"Ok", "Err", "Malformed"}

\* the block id sent for a shard and the descriptor stored for it both come
\* from the snapshot of masterchain block seqno
BlockId(shard, seqno) == [shard |-> shard, seqno |-> seqno]

\* a tokio broadcast send fails only when the channel has no receiver
HasReceivers == workchains.handle \/ workchains.subscriber.on

\* the masterchain tracker publishes a new last block
Masterchain_send ==
    /\ workchains.last < MaxSnapshots
    /\ workchains' = [workchains EXCEPT !.last = @ + 1]

\* receiver.changed().await is Ok and the last block id is borrowed
Actor_changed ==
    /\ workchains.pc = "changed"
    /\ workchains.seen # workchains.last
    /\ workchains' = [workchains EXCEPT !.seen = workchains.last,
                                        !.block = workchains.last,
                                        !.result = "none",
                                        !.pc = "fetch"]

\* receiver.changed().await is Err: the watch sender is gone, run returns
Actor_changed_err ==
    /\ workchains.pc = "changed"
    /\ workchains' = [workchains EXCEPT !.pc = "returned"]

\* client.oneshot(LiteServerGetAllShardsInfo::new(last_block_id)).await and
\* the unpacking of its data
Actor_fetch(res, shards) ==
    /\ workchains.pc = "fetch"
    /\ workchains' =
         [workchains EXCEPT
            !.result = res,
            !.shards = IF res = "Ok" THEN shards ELSE <<>>,
            !.pc = CASE res = "Malformed" -> "panicked"
                     [] res = "Ok" /\ shards # <<>> -> "insert"
                     [] OTHER -> "changed"]

\* the closure of for_each with the block id sent before the map is updated
Actor_for_each_send_first(step) ==
    LET shard == Head(workchains.shards)
    IN  \/ /\ step = 1
           /\ workchains.pc = "insert"
           /\ workchains' =
                IF HasReceivers
                THEN [workchains EXCEPT
                        !.sent = Append(@, BlockId(shard, workchains.block)),
                        !.pc = "send"]
                ELSE [workchains EXCEPT !.pc = "panicked"]
        \/ /\ step = 2
           /\ workchains.pc = "send"
           /\ workchains' =
                [workchains EXCEPT
                   !.state = DashMapInsert(@, shard, workchains.block),
                   !.shards = Tail(@),
                   !.pc = IF Tail(workchains.shards) = <<>> THEN "changed"
                          ELSE "insert"]

\* the closure of for_each for the next shard: step 1 is
\* self.state.insert(shard_id, shard.clone()), step 2 is
\* self.sender.send(..).expect("expect to send shard_id")
Actor_for_each(step) ==
    LET shard == Head(workchains.shards)
    IN  \/ /\ step = 1
           /\ workchains.pc = "insert"
           /\ workchains' =
                [workchains EXCEPT
                   !.state = DashMapInsert(@, shard, workchains.block),
                   !.pc = "send"]
        \/ /\ step = 2
           /\ workchains.pc = "send"
           /\ workchains' =
                IF HasReceivers
                THEN [workchains EXCEPT
                        !.sent = Append(@, BlockId(shard, workchains.block)),
                        !.shards = Tail(@),
                        !.pc = IF Tail(workchains.shards) = <<>>
                               THEN "changed" ELSE "insert"]
                ELSE [workchains EXCEPT !.pc = "panicked"]

\* the last WorkchainsLastBlocksTracker is dropped, its receiver with it
WorkchainsLastBlocksTracker_drop ==
    /\ workchains.handle
    /\ workchains' = [workchains EXCEPT !.handle = FALSE]

\* the CancellableActor stops run at an await once the guard is dropped
Actor_cancelled ==
    /\ ~workchains.handle
    /\ workchains.pc \in {"changed", "fetch"}
    /\ workchains' = [workchains EXCEPT !.pc = "cancelled"]

\* WorkchainsLastBlocksTracker::receiver: resubscribe sees what is sent
\* from now on
WorkchainsLastBlocksTracker_receiver ==
    /\ workchains.handle
    /\ ~workchains.subscriber.on
    /\ workchains' =
         [workchains EXCEPT
            !.subscriber = [on |-> TRUE, next |-> Len(workchains.sent) + 1,
                            got |-> None, read |-> None]]

\* the subscriber's receiver.recv().await returns the next block id
Subscriber_recv ==
    /\ workchains.subscriber.on
    /\ workchains.subscriber.next <= Len(workchains.sent)
    /\ workchains' =
         [workchains EXCEPT
            !.subscriber.got = Some(workchains.sent[workchains.subscriber.next]),
            !.subscriber.next = @ + 1,
            !.subscriber.read = None]

\* the subscriber drops its receiver
Subscriber_drop ==
    /\ workchains.subscriber.on
    /\ workchains' = [workchains EXCEPT !.subscriber.on = FALSE]

\* WorkchainsLastBlocksTracker::get_shard for the shard of the block id the
\* subscriber received last; 0 stands for None
WorkchainsLastBlocksTracker_get_shard ==
    /\ workchains.handle
    /\ workchains.subscriber.got # None
    /\ workchains.subscriber.read = None
    /\ LET shard == Unwrap(workchains.subscriber.got).shard
       IN  workchains' =
             [workchains EXCEPT
                !.subscriber.read =
                    Some(IF shard \in DOMAIN workchains.state
                         THEN workchains.state[shard] ELSE 0)]

workchainsRest == <<from, evaluated, routerVars, clientVars, trackerVars,
                    channelVars, balance, async_client, cursor, shared>>

WorkchainsNext ==
    \/ Masterchain_send /\ UNCHANGED workchainsRest
    \/ Actor_changed /\ UNCHANGED workchainsRest
    \/ Actor_changed_err /\ UNCHANGED workchainsRest
    \/ \E res \in FetchResults, shards \in ShardLists :
          Actor_fetch(res, shards) /\ UNCHANGED workchainsRest
    \/ \E step \in 1..2 : Actor_for_each(step) /\ UNCHANGED workchainsRest
    \/ WorkchainsLastBlocksTracker_drop /\ UNCHANGED workchainsRest
    \/ Actor_cancelled /\ UNCHANGED workchainsRest
    \/ WorkchainsLastBlocksTracker_receiver /\ UNCHANGED workchainsRest
    \/ Subscriber_recv /\ UNCHANGED workchainsRest
    \/ Subscriber_drop /\ UNCHANGED workchainsRest
    \/ WorkchainsLastBlocksTracker_get_shard /\ UNCHANGED workchainsRest

WorkchainsSpec == Init /\ [][WorkchainsNext]_vars

\* C40: for every shard of a fetched snapshot the shard map holds that
\* snapshot's descriptor before the shard's block id is broadcast, so a
\* subscriber that receives a block id and then reads get_shard for that
\* shard sees the descriptor of the same or a later snapshot; when the
\* shard-info fetch fails the map is unchanged, nothing is broadcast and the
\* actor is back at waiting for a head other than the one it fetched for.
C40_MapBeforeBroadcast ==
    [][/\ Len(workchains'.sent) > Len(workchains.sent) =>
            LET id == workchains'.sent[Len(workchains'.sent)]
            IN  /\ Len(workchains'.sent) = Len(workchains.sent) + 1
                /\ id.shard \in DOMAIN workchains.state
                /\ workchains.state[id.shard] = id.seqno
       /\ (workchains'.subscriber.read # None
             /\ workchains.subscriber.read = None) =>
            Unwrap(workchains'.subscriber.read)
                >= Unwrap(workchains.subscriber.got).seqno
       /\ (workchains.pc = "fetch" /\ workchains'.result = "Err") =>
            /\ workchains'.state = workchains.state
            /\ workchains'.sent = workchains.sent
            /\ workchains'.pc = "changed"
            /\ workchains'.seen = workchains.block]_vars
\* a subscriber received the block id of a shard and then read from the map
\* the descriptor of a later snapshot for that shard
C40_Witness ==
    /\ workchains.subscriber.read # None
    /\ workchains.subscriber.got # None
    /\ Unwrap(workchains.subscriber.read) > Unwrap(workchains.subscriber.got).seqno
====
